---- MODULE Spec2Model ----
(***************************************************************************)
(* A model of the hemu RISC-V emulator (src/src/cpu.rs, src/src/emulator.rs, *)
(* src/src/dut.rs): the hart (privilege mode, CSR file, Sv39 translation,   *)
(* LR/SC reservation set, system bus), the decoder's dispatch and the       *)
(* lock-step co-simulation loop.                                            *)
(*                                                                         *)
(* Conventions.  TLC's integers are 32-bit, so                              *)
(*   - a 64-bit CSR value is the set of the indices of its set bits         *)
(*     (OR is \cup, AND-NOT is \, a field is read by BitsValue);            *)
(*   - addresses are kept below 2^31: the DRAM window is placed at          *)
(*     0x8_0000 instead of 0x8000_0000 and virtual addresses use            *)
(*     vpn[2] = 0; a mask wider than 31 bits (0x0fff_ffff_ffff) is the      *)
(*     identity on every value of the model and is left out;                *)
(*   - a bitwise OR of fields that occupy disjoint bit positions is         *)
(*     written as a sum.                                                    *)
(* The modules bus, cpu::csr, exception and interrupt are not among the     *)
(* sources; what the model needs of them follows the specification text.    *)
(***************************************************************************)
EXTENDS Integers, Sequences, FiniteSets, TLC

(***************************************************************************)
(* Bounds of the model.                                                     *)
(***************************************************************************)
\* Data values written by stores / SC / AMO range over 0..MaxVal.
MaxVal == 1
\* Dut.ticks is kept exactly up to MaxTicks (at least 4).
MaxTicks == 4
\* The registers of the divide instructions are DivBits wide instead of 64.
DivBits == 4
\* The registers and the pc of the load and store addresses and of the jumps
\* are AddrBits (above 12) wide instead of 64.
AddrBits == 14
\* The pc of the driver cycle is PcBits wide instead of 64.
PcBits == 4
\* Guest programs of the co-simulation are MaxProg instructions long.
MaxProg == 3
\* The DUT takes up to MaxDutCycles cycles without a commit before it commits.
MaxDutCycles == 2

(***************************************************************************)
(* Program constants.                                                       *)
(***************************************************************************)
\* enum Mode (cpu.rs 59-64); Debug takes the next discriminant.
User == 0
Supervisor == 1
Machine == 3
Debug == 4

POINTER_TO_DTB == 4128
PAGE_SIZE == 4096
BYTE == 8
HALFWORD == 16
WORD == 32
DOUBLEWORD == 64

\* CSR addresses (cpu::csr).
MSTATUS == 768
SSTATUS == 256
MEDELEG == 770
SATP == 384
MHARTID == 3860

\* mstatus / sstatus fields as (lowest bit, width) (cpu::csr).
MSTATUS_MIE == [lo |-> 3, width |-> 1]
MSTATUS_MPIE == [lo |-> 7, width |-> 1]
MSTATUS_MPP == [lo |-> 11, width |-> 2]
MSTATUS_MPRV == [lo |-> 17, width |-> 1]
XSTATUS_SIE == [lo |-> 1, width |-> 1]
XSTATUS_SPIE == [lo |-> 5, width |-> 1]
XSTATUS_SPP == [lo |-> 8, width |-> 1]

\* The S-visible bits of mstatus: SIE, SPIE, SPP, SUM, MXR.
SSTATUS_MASK == {1, 5, 8, 18, 19}

\* The DRAM window of the bus (scaled, see the conventions above).
DRAM_BASE == 524288
DRAM_SIZE == 20480

None == "None"

\* What an instruction hands to gpr.write(rd, _): nothing, or a value (as the
\* set of its set bits, like a CSR value).
NoWrite == <<>>

(***************************************************************************)
(* The guest image: an Sv39 page table and one data doubleword.             *)
(*   root table  at 0x81000, entry 0      -> table 0x82                      *)
(*   level-1     at 0x82000, entry 0      -> table 0x83                      *)
(*   level-0     at 0x83000, entry 0x84   invalid                            *)
(*                           entry 0x85   leaf, ppn 0x84                     *)
(*                           entry 0x86   leaf, ppn 0x84                     *)
(*                           entry 0x87   leaf, ppn 0x90 (outside DRAM)      *)
(*   data        at 0x84000                                                  *)
(* Hence, with paging off or in M-mode, VA_A is the data doubleword and      *)
(* VA_B, VA_C, VA_E lie outside DRAM; under Sv39 VA_A page-faults, VA_B and  *)
(* VA_C both name the data doubleword, and VA_E translates to an address     *)
(* outside DRAM.  VA_MIS is not naturally aligned.                           *)
(***************************************************************************)
DramPpn == DRAM_BASE \div PAGE_SIZE
RootPpn == DramPpn + 1
DataPpn == DramPpn + 4
PteNext(ppn) == ppn * 1024 + 1
\* V | R | W | X | A | D
PteLeaf(ppn) == ppn * 1024 + 207

VA_A == DataPpn * PAGE_SIZE
VA_B == VA_A + PAGE_SIZE
VA_C == VA_B + PAGE_SIZE
VA_E == VA_C + PAGE_SIZE
VA_MIS == VA_A + 2

\* The address of entry idx of the page table in page ppn.
PteAt(ppn, idx) == ppn * PAGE_SIZE + idx * 8

Image ==
  (PteAt(RootPpn, 0) :> PteNext(RootPpn + 1)) @@
  (PteAt(RootPpn + 1, 0) :> PteNext(RootPpn + 2)) @@
  (PteAt(RootPpn + 2, DataPpn) :> 0) @@
  (PteAt(RootPpn + 2, DataPpn + 1) :> PteLeaf(DataPpn)) @@
  (PteAt(RootPpn + 2, DataPpn + 2) :> PteLeaf(DataPpn)) @@
  (PteAt(RootPpn + 2, DataPpn + 3) :> PteLeaf(DataPpn + 12)) @@
  (VA_A :> 0)

Values == 0..MaxVal

(***************************************************************************)
(* Bit helpers.                                                             *)
(***************************************************************************)
Shr(x, n) == x \div (2 ^ n)
Low(x, n) == x % (2 ^ n)

RECURSIVE BitsValue(_, _, _)
\* The number held in bits lo .. lo+width-1 of the bit set v.
BitsValue(v, lo, width) ==
  IF width = 0 THEN 0
  ELSE (IF (lo + width - 1) \in v THEN 2 ^ (width - 1) ELSE 0) + BitsValue(v, lo, width - 1)

\* The bit set of the number n (below 2^31) placed at bit lo, width bits wide.
ToBits(n, lo, width) == {lo + k : k \in {j \in 0..(width - 1) : j < 31 /\ Shr(n, j) % 2 = 1}}

Written(n) == <<ToBits(n, 0, 31)>>

(***************************************************************************)
(* cpu::csr (from the specification, 4.2).                                  *)
(***************************************************************************)
CsrAddrs == {MSTATUS, MEDELEG, SATP, MHARTID}

CsrRead(c, addr) == IF addr = SSTATUS THEN c[MSTATUS] \cap SSTATUS_MASK ELSE c[addr]

CsrWrite(c, addr, v) ==
  IF addr = SSTATUS
  THEN [c EXCEPT ![MSTATUS] = (@ \ SSTATUS_MASK) \cup (v \cap SSTATUS_MASK)]
  ELSE [c EXCEPT ![addr] = v]

CsrReadBits(c, addr, lo, width) == BitsValue(CsrRead(c, addr), lo, width)

ReadMstatus(c, f) == BitsValue(c[MSTATUS], f.lo, f.width)
WriteMstatus(c, f, n) ==
  [c EXCEPT ![MSTATUS] = (@ \ (f.lo..(f.lo + f.width - 1))) \cup ToBits(n, f.lo, f.width)]
ReadSstatus(c, f) == ReadMstatus(c, f)
WriteSstatus(c, f, n) == WriteMstatus(c, f, n)

(***************************************************************************)
(* bus (from the specification, 3): DRAM only; everything else faults.      *)
(***************************************************************************)
InDram(addr) == DRAM_BASE <= addr /\ addr < DRAM_BASE + DRAM_SIZE

BusRead(mem, addr) ==
  IF InDram(addr)
  THEN [ok |-> TRUE, val |-> IF addr \in DOMAIN mem THEN mem[addr] ELSE 0, exc |-> None]
  ELSE [ok |-> FALSE, val |-> 0, exc |-> "LoadAccessFault"]

BusWrite(mem, addr, value) ==
  IF InDram(addr)
  THEN [ok |-> TRUE, exc |-> None,
        mem |-> IF addr \in DOMAIN mem THEN [mem EXCEPT ![addr] = value]
                ELSE mem @@ (addr :> value)]
  ELSE [ok |-> FALSE, exc |-> "StoreAMOAccessFault", mem |-> mem]

(***************************************************************************)
(* The state.                                                               *)
(***************************************************************************)
VARIABLES
  mode,             \* Cpu.mode
  csr,              \* Cpu.csr: CSR address -> bit set
  enable_paging,    \* Cpu.enable_paging
  page_table,       \* Cpu.page_table
  reservation_set,  \* Cpu.reservation_set; only membership is ever observed
  dram,             \* Cpu.bus: cell address -> value
  exc,              \* the Err(exception) cpu.execute() returned, not yet taken
  rd,               \* what the last instruction wrote to its rd register: <<>> or <<bit set>>
  last,             \* history: the kind of step just taken
  lrFresh,          \* history: addresses with an LR and no store instruction on them since
  trapPre           \* history: mstatus MIE/MPIE/MPP just before the open M-mode trap

hartVars == <<mode, csr, enable_paging, page_table, reservation_set, dram, exc, rd,
              last, lrFresh, trapPre>>

\* Emulator::start_diff.
VARIABLES
  phase,       \* where start_diff is: "off", "cpu", "dut", "diff", "failed", "fatal"
  prog,        \* the guest program both sides run
  iss_pc,      \* cpu.pc, as an index into prog
  dut_pc,      \* the DUT's pc, as an index into prog
  record,      \* cpu.gpr.record: <<>> or <<wnum, wdata>>
  cpu_diff,    \* the local cpu_diff
  dut_diff,    \* the local dut_diff
  last_diff,   \* the local last_diff
  iss_retired, \* history: instructions the ISS has executed in this outer step
  dut_cycles,  \* history: DUT cycles without a commit in this outer step
  compared     \* history: the <<cpu_diff, dut_diff>> of every comparison made, in order

diffVars == <<phase, prog, iss_pc, dut_pc, record, cpu_diff, dut_diff, last_diff,
              iss_retired, dut_cycles, compared>>

\* Cpu::execute's decoder.
VARIABLES
  inst,        \* the fetched word (a halfword for a compressed instruction)
  outcome      \* what executing it came to

decVars == <<inst, outcome>>

\* A function of the program looked at on its own: its arguments and result.
VARIABLES
  fn_arg,         \* the arguments of the call
  fn_res          \* <<>> before the call, <<result>> after it

fnVars == <<fn_arg, fn_res>>

\* Gpr (cpu/gpr.rs).
VARIABLES
  gpr          \* Gpr.gpr: register index -> value

\* Cpu::translate looked at on its own.
VARIABLES
  xlate        \* the last call of translate (see NotTranslated)

\* Dut (dut.rs) and the DUT loop of Emulator::start_diff.
VARIABLES
  ticks,       \* Dut.ticks
  reset,       \* Top.reset, the reset input of the RTL model
  dut_bus,     \* Dut.bus: cell address -> value
  dut_data,    \* Dut.data
  d_phase,     \* where the harness is: "off", "cpu", "dut", "diff", "failed", "panic"
  stepped      \* history: the last Dut::step (see NotStepped)

dutVars == <<ticks, reset, dut_bus, dut_data, d_phase, stepped>>

\* Emulator::execute, the driver cycle, with the interrupt registers.
VARIABLES
  cpu_pc,      \* Cpu.pc
  idle,        \* Cpu.idle
  mip,         \* csr.read(MIP), as the set of its set bits
  mie,         \* csr.read(MIE)
  mideleg,     \* csr.read(MIDELEG)
  cyc          \* history: the last call of Emulator::execute (see NoCycle)

irqVars == <<cpu_pc, idle, mip, mie, mideleg, cyc>>

auxVars == <<fnVars, gpr, xlate, dutVars, irqVars>>

vars == <<hartVars, diffVars, decVars, auxVars>>

FnOff == fn_arg = <<>> /\ fn_res = <<>>
GprOff == gpr = <<>>
\* The last call of translate: addr (-1: there was none) and access_type, the
\* mode, satp.MODE, satp.PPN, enable_paging and page_table it was made under,
\* mstatus.SUM and MXR, whether it entered the page walk, the leaf PTE it found and the
\* level of that PTE (-1: none), and its result.
NotTranslated ==
  [va |-> -1, access_type |-> "", mode |-> 0, satp_mode |-> 0, satp_ppn |-> 0,
   enable_paging |-> FALSE, page_table |-> 0, sum |-> 0, mxr |-> 0, walked |-> FALSE,
   pte |-> 0,
   level |-> -1, r |-> [ok |-> FALSE, pa |-> 0, exc |-> None]]
MmuOff == xlate = NotTranslated
\* The last Dut::step: the value of ticks it ran at (-1: there was none), the
\* reset level it drove, and the data_sram request it returned.
NotStepped == [tick |-> -1, reset |-> FALSE, en |-> FALSE, addr |-> 0]
\* The last driver cycle: whether there was one, the mode, mstatus, pc and idle
\* it began with, mip as check_pending_interrupt found it and left it, whether
\* a device was interrupting, the interrupt check_pending_interrupt returned,
\* whether cpu.execute() fetched, and the Trap the cycle returned.
NoCycle ==
  [ran |-> FALSE, mode |-> Machine, mstatus |-> {}, pc |-> 0, idle |-> FALSE,
   mip0 |-> {}, mip1 |-> {}, ext |-> FALSE, fired |-> "None", fetched |-> FALSE,
   trap |-> "None"]
IrqOff ==
  /\ cpu_pc = 0 /\ idle = FALSE /\ mip = {} /\ mie = {} /\ mideleg = {} /\ cyc = NoCycle
DutOff ==
  /\ ticks = 0 /\ reset = FALSE /\ dut_bus = <<>> /\ dut_data = 0
  /\ d_phase = "off" /\ stepped = NotStepped

(***************************************************************************)
(* Cpu::translate (cpu.rs 226-367).                                         *)
(***************************************************************************)
PageFault(access_type) ==
  [ok |-> FALSE, pa |-> 0,
   exc |-> CASE access_type = "Instruction" -> "InstructionPageFault"
             [] access_type = "Load" -> "LoadPageFault"
             [] OTHER -> "StoreAMOPageFault"]

Vpn(addr) == [j \in 0..2 |-> Low(Shr(addr, 12 + 9 * j), 9)]

RECURSIVE Walk(_, _, _, _, _)
\* Steps 3-4 of the loop for the PTE read r0 at level i: the leaf PTE and its
\* level, the fault, or the next level.
WalkEntry(mem, r0, i, addr, access_type) ==
  IF ~r0.ok THEN [ok |-> FALSE, pa |-> 0, exc |-> r0.exc, i |-> i, pte |-> 0]
  ELSE
    LET pte == r0.val
        v == pte % 2
        r == Shr(pte, 1) % 2
        w == Shr(pte, 2) % 2
        x == Shr(pte, 3) % 2
    IN IF v = 0 \/ (r = 0 /\ w = 1) THEN PageFault(access_type) @@ [i |-> i, pte |-> pte]
       ELSE IF r = 1 \/ x = 1 THEN [ok |-> TRUE, pa |-> 0, exc |-> None, i |-> i, pte |-> pte]
       ELSE IF i - 1 < 0 THEN PageFault(access_type) @@ [i |-> i, pte |-> pte]
       ELSE Walk(mem, Shr(pte, 10) * PAGE_SIZE, i - 1, addr, access_type)

\* Step 2: read the PTE at a + vpn[i] * 8.
Walk(mem, a, i, addr, access_type) ==
  WalkEntry(mem, BusRead(mem, a + Vpn(addr)[i] * 8), i, addr, access_type)

\* steps 6-8 of translate with the page offset left out of a 4 KiB leaf's
\* address.
TranslateLeafPageBase(leaf, addr, access_type) ==
  IF ~leaf.ok THEN [ok |-> FALSE, pa |-> 0, exc |-> leaf.exc]
  ELSE [ok |-> TRUE, exc |-> None, pa |-> Shr(leaf.pte, 10) * 4096]

\* Steps 6-8 for the leaf the walk found.
TranslateLeaf(leaf, addr, access_type) ==
  IF ~leaf.ok THEN [ok |-> FALSE, pa |-> 0, exc |-> leaf.exc]
  ELSE
    LET vpn == Vpn(addr)
        pte == leaf.pte
        i == leaf.i
        ppn == [j \in 0..2 |-> IF j = 2 THEN Low(Shr(pte, 28), 26)
                               ELSE Low(Shr(pte, 10 + 9 * j), 9)]
        offset == Low(addr, 12)
    IN IF i > 0 /\ \E j \in 0..(i - 1) : ppn[j] # 0
       THEN [ok |-> FALSE, pa |-> 0, exc |-> PageFault(access_type).exc]
       ELSE CASE i = 0 -> [ok |-> TRUE, exc |-> None,
                           pa |-> Shr(pte, 10) * 4096 + offset]
              [] i = 1 -> [ok |-> TRUE, exc |-> None,
                           pa |-> ppn[2] * (2 ^ 30) + ppn[1] * (2 ^ 21)
                                  + vpn[0] * 4096 + offset]
              [] i = 2 -> [ok |-> TRUE, exc |-> None,
                           pa |-> ppn[2] * (2 ^ 30) + vpn[1] * (2 ^ 21)
                                  + vpn[0] * 4096 + offset]
              [] OTHER -> [ok |-> FALSE, pa |-> 0, exc |-> PageFault(access_type).exc]

Translate(m, mem, addr, access_type) ==
  IF ~enable_paging \/ m = Machine THEN [ok |-> TRUE, pa |-> addr, exc |-> None]
  ELSE TranslateLeaf(Walk(mem, page_table, 2, addr, access_type), addr, access_type)

(***************************************************************************)
(* Cpu::read and Cpu::write (cpu.rs 371-427).  Both are given the mode and  *)
(* return the mode they leave in Cpu.mode.                                  *)
(***************************************************************************)
\* The mode MPRV substitutes for the access (cpu.rs 377-384, 404-411).
MprvMode(c, m) ==
  IF ReadMstatus(c, MSTATUS_MPRV) = 1
  THEN LET mpp == ReadMstatus(c, MSTATUS_MPP)
       IN CASE mpp = 0 -> User [] mpp = 1 -> Supervisor [] mpp = 3 -> Machine
            [] OTHER -> Debug
  ELSE m

\* Cpu::read from the translation on (cpu.rs 386-393); m1 is the mode the
\* access is made in and t the result of self.translate.
CpuReadTranslated(previous_mode, m1, c, mem, t) ==
  IF ~t.ok
  THEN \* `?`: returns before the mode is restored
       [ok |-> FALSE, exc |-> t.exc, val |-> 0, mode |-> m1]
  ELSE LET result == BusRead(mem, t.pa)
       IN [ok |-> result.ok, exc |-> result.exc, val |-> result.val,
           mode |-> IF ReadMstatus(c, MSTATUS_MPRV) = 1 THEN previous_mode ELSE m1]

CpuReadAs(previous_mode, m1, c, mem, v_addr) ==
  CpuReadTranslated(previous_mode, m1, c, mem, Translate(m1, mem, v_addr, "Load"))

CpuRead(m, c, mem, v_addr) == CpuReadAs(m, MprvMode(c, m), c, mem, v_addr)

\* Cpu::write from the translation on (cpu.rs 419-426); res1 is the
\* reservation set after lines 415-417.
CpuWriteTranslated(previous_mode, m1, c, res1, mem, t, value) ==
  IF ~t.ok
  THEN [ok |-> FALSE, exc |-> t.exc, mode |-> m1, res |-> res1, mem |-> mem]
  ELSE LET result == BusWrite(mem, t.pa, value)
       IN [ok |-> result.ok, exc |-> result.exc, res |-> res1, mem |-> result.mem,
           mode |-> IF ReadMstatus(c, MSTATUS_MPRV) = 1 THEN previous_mode ELSE m1]

CpuWriteAs(previous_mode, m1, c, res1, mem, v_addr, value) ==
  CpuWriteTranslated(previous_mode, m1, c, res1, mem,
                     Translate(m1, mem, v_addr, "Store"), value)

\* Cpu::write without lines 415-417: a store that leaves the reservation on its
\* address in place.
CpuWriteKeepsReservation(m, c, res, mem, v_addr, value) ==
  CpuWriteAs(m, MprvMode(c, m), c, res, mem, v_addr, value)

CpuWrite(m, c, res, mem, v_addr, value) ==
  CpuWriteAs(m, MprvMode(c, m), c,
             IF v_addr \in res THEN res \ {v_addr} ELSE res, mem, v_addr, value)

(***************************************************************************)
(* Cpu::new (cpu.rs 95-109) with the guest image loaded.                    *)
(***************************************************************************)
HartInit ==
  /\ mode = Machine
  /\ csr = [a \in CsrAddrs |-> {}]
  /\ enable_paging = FALSE
  /\ page_table = 0
  /\ reservation_set = {}
  /\ dram = Image
  /\ exc = None
  /\ rd = NoWrite
  /\ last = "new"
  /\ lrFresh = {}
  /\ trapPre = <<>>

\* History kept by every step that is neither a trap entry nor an MRET.
KeepTrapPre == trapPre' = IF last = "mret" THEN <<>> ELSE trapPre

\* An instruction handler returns Err(e): nothing else of the hart changes.
Raise(e, op) ==
  /\ exc' = e
  /\ rd' = NoWrite
  /\ last' = op
  /\ KeepTrapPre

(***************************************************************************)
(* Cpu::update_paging (cpu.rs 209-223).                                     *)
(***************************************************************************)
UpdatePagingTable(c) == CsrReadBits(c, SATP, 0, 44) * PAGE_SIZE
UpdatePagingEnable(c) == CsrReadBits(c, SATP, 60, 4) = 8

(***************************************************************************)
(* Cpu::execute_general, one action per arm.  The operands read from the    *)
(* register file (gpr.read(rs1), gpr.read(rs2)) are inputs of the action.   *)
(***************************************************************************)
\* ld (cpu.rs 1030-1090): val = self.read(addr)?; gpr.write(rd, val).
\* r is what self.read returned.
Loaded(r) ==
  /\ mode' = r.mode
  /\ IF r.ok
     THEN /\ exc' = None /\ rd' = Written(r.val)
          /\ last' = "load" /\ KeepTrapPre
     ELSE Raise(r.exc, "load")

ExecLoad(addr) ==
  /\ exc = None
  /\ Loaded(CpuRead(mode, csr, dram, addr))
  /\ UNCHANGED <<csr, enable_paging, page_table, reservation_set, dram, lrFresh>>

\* sd (cpu.rs 1255-1285): self.write(addr, gpr.read(rs2))?.
\* r is what self.write returned and left behind.
Stored(r, op) ==
  /\ mode' = r.mode
  /\ reservation_set' = r.res
  /\ dram' = r.mem
  /\ IF r.ok
     THEN /\ exc' = None /\ rd' = NoWrite
          /\ last' = op /\ KeepTrapPre
     ELSE Raise(r.exc, op)

ExecStore(addr, value) ==
  /\ exc = None
  /\ Stored(CpuWrite(mode, csr, reservation_set, dram, addr, value), "store")
  /\ lrFresh' = lrFresh \ {addr}
  /\ UNCHANGED <<csr, enable_paging, page_table>>

\* amoswap.w / amoswap.d (cpu.rs 1341-1362): t = self.read(addr)?;
\* self.write(addr, gpr.read(rs2))?; gpr.write(rd, t).
AmoswapWritten(t, r) ==
  /\ mode' = r.mode
  /\ reservation_set' = r.res
  /\ dram' = r.mem
  /\ IF r.ok
     THEN /\ exc' = None /\ rd' = Written(t.val)
          /\ last' = "amo" /\ KeepTrapPre
     ELSE Raise(r.exc, "amo")

AmoswapRead(addr, value, t) ==
  IF ~t.ok
  THEN /\ Raise(t.exc, "amo")
       /\ mode' = t.mode
       /\ UNCHANGED <<reservation_set, dram, lrFresh>>
  ELSE /\ AmoswapWritten(t, CpuWrite(t.mode, csr, reservation_set, dram, addr, value))
       /\ lrFresh' = lrFresh \ {addr}

ExecAmoswap(addr, value, size) ==
  /\ exc = None
  /\ IF addr % (size \div 8) # 0
     THEN /\ Raise("LoadAddressMisaligned", "amo")
          /\ UNCHANGED <<mode, reservation_set, dram, lrFresh>>
     ELSE AmoswapRead(addr, value, CpuRead(mode, csr, dram, addr))
  /\ UNCHANGED <<csr, enable_paging, page_table>>

\* lr.w / lr.d (cpu.rs 1363-1390).
LrRead(addr, r) ==
  /\ mode' = r.mode
  /\ IF r.ok
     THEN /\ exc' = None /\ rd' = Written(r.val)
          /\ reservation_set' = reservation_set \cup {addr}
          /\ lrFresh' = lrFresh \cup {addr}
          /\ last' = "lr" /\ KeepTrapPre
     ELSE /\ Raise(r.exc, "lr")
          /\ UNCHANGED <<reservation_set, lrFresh>>

ExecLr(addr, size) ==
  /\ exc = None
  /\ IF addr % (size \div 8) # 0
     THEN /\ Raise("LoadAddressMisaligned", "lr")
          /\ UNCHANGED <<mode, reservation_set, lrFresh>>
     ELSE LrRead(addr, CpuRead(mode, csr, dram, addr))
  /\ UNCHANGED <<csr, enable_paging, page_table, dram>>

\* sc.w / sc.d (cpu.rs 1391-1430).
ScWritten(r) ==
  /\ mode' = r.mode
  /\ reservation_set' = r.res
  /\ dram' = r.mem
  /\ IF r.ok
     THEN /\ exc' = None /\ rd' = Written(0)
          /\ last' = "sc" /\ KeepTrapPre
     ELSE Raise(r.exc, "sc")

ExecSc(addr, value, size) ==
  /\ exc = None
  /\ IF addr % (size \div 8) # 0
     THEN /\ Raise("StoreAMOAddressMisaligned", "sc")
          /\ UNCHANGED <<mode, reservation_set, dram, lrFresh>>
     ELSE IF addr \in reservation_set
     THEN /\ ScWritten(CpuWrite(mode, csr, reservation_set \ {addr}, dram, addr, value))
          /\ lrFresh' = lrFresh \ {addr}
     ELSE /\ reservation_set' = reservation_set \ {addr}
          /\ exc' = None /\ rd' = Written(1)
          /\ last' = "sc" /\ KeepTrapPre
          /\ UNCHANGED <<mode, dram, lrFresh>>
  /\ UNCHANGED <<csr, enable_paging, page_table>>

(***************************************************************************)
(* 0x73: SYSTEM (cpu.rs 2557-2771).                                         *)
(***************************************************************************)
\* ecall (cpu.rs 2563-2582).
ExecEcall ==
  /\ exc = None
  /\ Raise(CASE mode = User -> "EnvironmentCallFromUMode"
             [] mode = Supervisor -> "EnvironmentCallFromSMode"
             [] mode = Machine -> "EnvironmentCallFromMMode"
             [] OTHER -> "IllegalInstruction", "ecall")
  /\ UNCHANGED <<mode, csr, enable_paging, page_table, reservation_set, dram, lrFresh>>

\* sret (cpu.rs 2594-2632): the mode and the CSR file it leaves.
SretMode(c) ==
  LET spp == ReadSstatus(c, XSTATUS_SPP)
  IN CASE spp = 0 -> User [] spp = 1 -> Supervisor [] OTHER -> Debug

SretCsr(c) ==
  LET c1 == IF ReadSstatus(c, XSTATUS_SPP) = 1 THEN WriteMstatus(c, MSTATUS_MPRV, 0) ELSE c
      c2 == WriteSstatus(c1, XSTATUS_SIE, ReadSstatus(c1, XSTATUS_SPIE))
      c3 == WriteSstatus(c2, XSTATUS_SPIE, 1)
  IN WriteSstatus(c3, XSTATUS_SPP, 0)

ExecSret ==
  /\ exc = None
  /\ mode' = SretMode(csr)
  /\ csr' = SretCsr(csr)
  /\ exc' = None /\ rd' = NoWrite
  /\ last' = "sret"
  /\ KeepTrapPre
  /\ UNCHANGED <<enable_paging, page_table, reservation_set, dram, lrFresh>>

\* mret (cpu.rs 2633-2676): the mode and the CSR file it leaves.
MretMode(c) ==
  LET mpp == ReadMstatus(c, MSTATUS_MPP)
  IN CASE mpp = 0 -> User [] mpp = 1 -> Supervisor [] mpp = 3 -> Machine [] OTHER -> Debug

\* mret without lines 2670-2672: MPIE is left as the trap set it.
MretCsrLeavesMpie(c) ==
  LET mpp == ReadMstatus(c, MSTATUS_MPP)
      c1 == IF mpp = 0 \/ mpp = 1 THEN WriteMstatus(c, MSTATUS_MPRV, 0) ELSE c
      c2 == WriteMstatus(c1, MSTATUS_MIE, ReadMstatus(c1, MSTATUS_MPIE))
  IN WriteMstatus(c2, MSTATUS_MPP, User)

MretCsr(c) ==
  LET mpp == ReadMstatus(c, MSTATUS_MPP)
      c1 == IF mpp = 0 \/ mpp = 1 THEN WriteMstatus(c, MSTATUS_MPRV, 0) ELSE c
      c2 == WriteMstatus(c1, MSTATUS_MIE, ReadMstatus(c1, MSTATUS_MPIE))
      c3 == WriteMstatus(c2, MSTATUS_MPIE, 1)
  IN WriteMstatus(c3, MSTATUS_MPP, User)

ExecMret ==
  /\ exc = None
  /\ mode' = MretMode(csr)
  /\ csr' = MretCsr(csr)
  /\ exc' = None /\ rd' = NoWrite
  /\ last' = "mret"
  /\ trapPre' = IF last = "mret" THEN <<>> ELSE trapPre
  /\ UNCHANGED <<enable_paging, page_table, reservation_set, dram, lrFresh>>

\* csrrw, csrrs, csrrc, csrrwi, csrrsi, csrrci (cpu.rs 2699-2766): the value
\* handed to csr.write; operand is gpr.read(rs1), or zimm for funct3 5..7.
CsrNewValue(funct3, t, operand) ==
  CASE funct3 \in {1, 5} -> operand
    [] funct3 \in {2, 6} -> t \cup operand
    [] OTHER -> t \ operand

\* Whether the instruction is one that writes the CSR architecturally
\* (csrrs/csrrc and their immediate forms with a zero operand do not).
CsrWrites(funct3, operand) == funct3 \in {1, 5} \/ operand # {}

ExecCsr(funct3, csr_addr, operand) ==
  /\ exc = None
  /\ funct3 \in {5, 6, 7} => operand \subseteq 0..4
  /\ LET t == CsrRead(csr, csr_addr)
         c1 == CsrWrite(csr, csr_addr, CsrNewValue(funct3, t, operand))
     IN /\ csr' = c1
        /\ rd' = <<t>>
        /\ IF csr_addr = SATP
           THEN /\ page_table' = UpdatePagingTable(c1)
                /\ enable_paging' = UpdatePagingEnable(c1)
           ELSE UNCHANGED <<page_table, enable_paging>>
  /\ exc' = None
  /\ last' = "csr"
  /\ trapPre' = IF last = "mret" \/ (csr_addr = MSTATUS /\ CsrWrites(funct3, operand))
                THEN <<>> ELSE trapPre
  /\ UNCHANGED <<mode, reservation_set, dram, lrFresh>>

(***************************************************************************)
(* Exception::take_trap, called by Emulator::execute on Err (emulator.rs    *)
(* 170-174); from the specification, 4.5.  The reservation set is a private *)
(* field of Cpu that only cpu.rs can reach, and cpu.rs offers nothing that  *)
(* clears it, so trap entry leaves it alone.                                *)
(***************************************************************************)
ExceptionCode(e) ==
  CASE e = "InstructionAddressMisaligned" -> 0
    [] e = "InstructionAccessFault" -> 1
    [] e = "IllegalInstruction" -> 2
    [] e = "Breakpoint" -> 3
    [] e = "LoadAddressMisaligned" -> 4
    [] e = "LoadAccessFault" -> 5
    [] e = "StoreAMOAddressMisaligned" -> 6
    [] e = "StoreAMOAccessFault" -> 7
    [] e = "EnvironmentCallFromUMode" -> 8
    [] e = "EnvironmentCallFromSMode" -> 9
    [] e = "EnvironmentCallFromMMode" -> 11
    [] e = "InstructionPageFault" -> 12
    [] e = "LoadPageFault" -> 13
    [] OTHER -> 15

Delegated(m, c, e) == m <= Supervisor /\ ExceptionCode(e) \in CsrRead(c, MEDELEG)

TrapCsr(m, c, e) ==
  IF Delegated(m, c, e)
  THEN LET c1 == WriteSstatus(c, XSTATUS_SPIE, ReadSstatus(c, XSTATUS_SIE))
           c2 == WriteSstatus(c1, XSTATUS_SIE, 0)
       IN WriteSstatus(c2, XSTATUS_SPP, m % 2)
  ELSE LET c1 == WriteMstatus(c, MSTATUS_MPIE, ReadMstatus(c, MSTATUS_MIE))
           c2 == WriteMstatus(c1, MSTATUS_MIE, 0)
       IN WriteMstatus(c2, MSTATUS_MPP, m % 4)

TrapMode(m, c, e) == IF Delegated(m, c, e) THEN Supervisor ELSE Machine

MTriple(c) == <<ReadMstatus(c, MSTATUS_MIE), ReadMstatus(c, MSTATUS_MPIE),
                ReadMstatus(c, MSTATUS_MPP)>>

TakeTrap ==
  /\ exc # None
  /\ mode' = TrapMode(mode, csr, exc)
  /\ csr' = TrapCsr(mode, csr, exc)
  /\ exc' = None /\ rd' = NoWrite
  /\ last' = "trap"
  /\ trapPre' = IF Delegated(mode, csr, exc) THEN <<>> ELSE MTriple(csr)
  /\ UNCHANGED <<enable_paging, page_table, reservation_set, dram, lrFresh>>

(***************************************************************************)
(* The decoder: which arm of Cpu::execute_compressed (cpu.rs 483-1003) and   *)
(* of Cpu::execute_general (cpu.rs 1006-2777) a fetched word reaches.  What   *)
(* the arms of the memory, atomic and SYSTEM instructions do to the hart is   *)
(* modelled by the actions above; here an arm is named, and the result is     *)
(* Ok (an arm ran), Err(exception) or the abort of the host process.          *)
(* A 32-bit word is kept below 2^31 (funct7 < 64).                            *)
(***************************************************************************)
Bits(x, lo, n) == Low(Shr(x, lo), n)

Fetched == [kind |-> "fetched", what |-> "", bits |-> 0]
Ok(arm) == [kind |-> "Ok", what |-> arm, bits |-> 0]
Err(e) == [kind |-> "Err", what |-> e, bits |-> 0]
IllegalInstruction(bits) == [kind |-> "Err", what |-> "IllegalInstruction", bits |-> bits]
\* panic!(): the host process aborts.
Panic(msg) == [kind |-> "panic", what |-> msg, bits |-> 0]

DecodeOff == inst = 0 /\ outcome = Fetched

\* Quadrant 0 (cpu.rs 492-592).
Quadrant0(w, funct3) ==
  CASE funct3 = 0 ->
         LET nzuimm == Bits(w, 7, 4) * 64 + Bits(w, 11, 2) * 16
                       + Bits(w, 5, 1) * 8 + Bits(w, 6, 1) * 4
         IN IF nzuimm = 0 THEN IllegalInstruction(w) ELSE Ok("c.addi4spn")
    [] funct3 = 1 -> Ok("c.fld")
    [] funct3 = 2 -> Ok("c.lw")
    [] funct3 = 3 -> Ok("c.ld")
    [] funct3 = 4 -> Panic("reserved")
    [] funct3 = 5 -> Ok("c.fsd")
    [] funct3 = 6 -> Ok("c.sw")
    [] funct3 = 7 -> Ok("c.sd")
    [] OTHER -> IllegalInstruction(w)

\* Quadrant 1 (cpu.rs 594-855).
Quadrant1(w, funct3) ==
  CASE funct3 = 0 -> Ok("c.addi")
    [] funct3 = 1 -> Ok("c.addiw")
    [] funct3 = 2 -> Ok("c.li")
    [] funct3 = 3 ->
         LET rd_idx == Bits(w, 7, 5)
         IN CASE rd_idx = 0 -> Ok("")
              [] rd_idx = 2 -> Ok("c.addi16sp")
              [] OTHER -> Ok("c.lui")
    [] funct3 = 4 ->
         LET funct2 == Bits(w, 10, 2)
             sel == <<Bits(w, 12, 1), Bits(w, 5, 2)>>
         IN CASE funct2 = 0 -> Ok("c.srli")
              [] funct2 = 1 -> Ok("c.srai")
              [] funct2 = 2 -> Ok("c.andi")
              [] funct2 = 3 ->
                   CASE sel = <<0, 0>> -> Ok("c.sub")
                     [] sel = <<0, 1>> -> Ok("c.xor")
                     [] sel = <<0, 2>> -> Ok("c.or")
                     [] sel = <<0, 3>> -> Ok("c.and")
                     [] sel = <<1, 0>> -> Ok("c.subw")
                     [] sel = <<1, 1>> -> Ok("c.addw")
                     [] OTHER -> IllegalInstruction(w)
              [] OTHER -> IllegalInstruction(w)
    [] funct3 = 5 -> Ok("c.j")
    [] funct3 = 6 -> Ok("c.beqz")
    [] funct3 = 7 -> Ok("c.bnez")
    [] OTHER -> IllegalInstruction(w)

\* Quadrant 2 (cpu.rs 856-996).
Quadrant2(w, funct3) ==
  CASE funct3 = 0 -> Ok("c.slli")
    [] funct3 = 1 -> Ok("c.fldsp")
    [] funct3 = 2 -> Ok("c.lwsp")
    [] funct3 = 3 -> Ok("c.ldsp")
    [] funct3 = 4 ->
         LET b12 == Bits(w, 12, 1)
             rs2 == Bits(w, 2, 5)
             rd_idx == Bits(w, 7, 5)
         IN CASE b12 = 0 /\ rs2 = 0 -> Ok("c.jr")
              [] b12 = 0 /\ rs2 # 0 -> Ok("c.mv")
              [] b12 = 1 /\ rs2 = 0 -> IF rd_idx = 0 THEN Err("Breakpoint") ELSE Ok("c.jalr")
              [] OTHER -> Ok("c.add")
    [] funct3 = 5 -> Ok("c.fsdsp")
    [] funct3 = 6 -> Ok("c.swsp")
    [] funct3 = 7 -> Ok("c.sdsp")
    [] OTHER -> IllegalInstruction(w)

\* Cpu::execute_compressed (cpu.rs 483-1003).
ExecuteCompressed(w) ==
  LET opcode == Bits(w, 0, 2)
      funct3 == Bits(w, 13, 3)
  IN CASE opcode = 0 -> Quadrant0(w, funct3)
       [] opcode = 1 -> Quadrant1(w, funct3)
       [] opcode = 2 -> Quadrant2(w, funct3)
       [] OTHER -> IllegalInstruction(w)

\* 0x73, funct3 = 0 (cpu.rs 2561-2697), in mode m.
System0(w, m, rs2, funct7) ==
  CASE rs2 = 0 /\ funct7 = 0 ->
         CASE m = User -> Err("EnvironmentCallFromUMode")
           [] m = Supervisor -> Err("EnvironmentCallFromSMode")
           [] m = Machine -> Err("EnvironmentCallFromMMode")
           [] OTHER -> IllegalInstruction(w)
    [] rs2 = 1 /\ funct7 = 0 -> Err("Breakpoint")
    [] rs2 = 2 /\ funct7 = 0 -> Panic("uret: not implemented yet")
    [] rs2 = 2 /\ funct7 = 8 -> Ok("sret")
    [] rs2 = 2 /\ funct7 = 24 -> Ok("mret")
    [] rs2 = 5 /\ funct7 = 8 -> Ok("wfi")
    [] funct7 = 9 -> Ok("sfence.vma")
    [] funct7 = 17 -> Ok("hfence.bvma")
    [] funct7 = 81 -> Ok("hfence.gvma")
    [] OTHER -> IllegalInstruction(w)

\* 0x73 (cpu.rs 2557-2771).
System(w, m) ==
  LET funct3 == Bits(w, 12, 3)
  IN CASE funct3 = 0 -> System0(w, m, Bits(w, 20, 5), Bits(w, 25, 7))
       [] funct3 \in {1, 2, 3, 5, 6, 7} -> Ok("csr")
       [] OTHER -> IllegalInstruction(w)

\* The major opcodes execute_general has an arm for (cpu.rs 1029-2557).
GeneralOpcodes == {3, 7, 15, 19, 23, 27, 35, 39, 47, 51, 55, 59, 67, 71, 75, 79, 83,
                   99, 103, 111, 115}

\* Cpu::execute_general (cpu.rs 1006-2777); of the arms other than 0x73 only
\* that they exist.
ExecuteGeneral(w, m) ==
  LET opcode == Bits(w, 0, 7)
  IN IF opcode = 115 THEN System(w, m)
     ELSE IF opcode \in GeneralOpcodes THEN Ok("general")
     ELSE IllegalInstruction(w)

\* Cpu::execute (cpu.rs 456-479) from the fetched word on.
CpuExecute ==
  /\ outcome = Fetched
  /\ outcome' = IF Bits(inst, 0, 2) \in {0, 1, 2}
                THEN ExecuteCompressed(Bits(inst, 0, 16))
                ELSE ExecuteGeneral(inst, mode)
  /\ UNCHANGED <<inst, hartVars, diffVars, auxVars>>

\* The words fetched: every halfword of the three compressed quadrants, every
\* 0x73 word with rd = rs1 = 0 and funct7 < 64, and the major opcodes without
\* an arm.
Halfwords == {h \in 0..65535 : h % 4 # 3}
SystemWords ==
  {funct7 * (2 ^ 25) + rs2 * (2 ^ 20) + funct3 * (2 ^ 12) + 115 :
     funct7 \in 0..63, rs2 \in 0..31, funct3 \in 0..7}
UnknownOpcodeWords == {op \in 0..127 : op % 4 = 3 /\ op \notin GeneralOpcodes}

(***************************************************************************)
(* Emulator::start_diff (emulator.rs 283-376).  A guest instruction is       *)
(* <<wnum, wdata>>: the one gpr.write(wnum, wdata) it makes, wnum = 0 for an  *)
(* instruction that writes no register (a store, a branch).  Both sides run  *)
(* the same program from DRAM_BASE; the DUT is a core that commits every     *)
(* instruction it retires.  Gpr.record is not among the sources: it is       *)
(* empty at the top of each cycle and holds the cycle's register write       *)
(* (specification, 4.1).                                                     *)
(***************************************************************************)
\* DebugInfo::new, DebugInfo::default (emulator.rs 22-53).
DebugInfo(commit, pc, wnum, wdata) ==
  [commit |-> commit, pc |-> pc, wnum |-> wnum, wdata |-> wdata]
DebugInfoDefault == DebugInfo(FALSE, 0, 0, 0)

\* impl PartialEq for DebugInfo (emulator.rs 36-40).
DebugInfoEq(x, y) ==
  x.commit = y.commit /\ x.pc = y.pc /\ x.wnum = y.wnum /\ x.wdata = y.wdata

Insts == {<<0, 0>>} \cup {<<1, v>> : v \in Values}
Programs == [1..MaxProg -> Insts]
PcOf(idx) == DRAM_BASE + 4 * idx

\* The hart and the co-simulation when the other one is being looked at.
DiffOff ==
  /\ phase = "off" /\ prog = <<>> /\ iss_pc = 0 /\ dut_pc = 0 /\ record = <<>>
  /\ cpu_diff = DebugInfoDefault /\ dut_diff = DebugInfoDefault
  /\ last_diff = DebugInfoDefault /\ iss_retired = 0 /\ dut_cycles = 0
  /\ compared = <<>>

Hart(A) == A /\ UNCHANGED <<diffVars, decVars, auxVars>>

DiffInit ==
  /\ phase = "cpu" /\ prog \in Programs /\ iss_pc = 0 /\ dut_pc = 0 /\ record = <<>>
  /\ cpu_diff = DebugInfoDefault /\ dut_diff = DebugInfoDefault
  /\ last_diff = DebugInfoDefault /\ iss_retired = 0 /\ dut_cycles = 0
  /\ compared = <<>>

\* One pass of the cpu loop (emulator.rs 288-310): execute, then leave the
\* loop only if gpr.record holds a write.
StartDiffCpu ==
  /\ phase = "cpu"
  /\ IF iss_pc >= Len(prog)
     THEN \* the guest has halted: Trap::Fatal, return
          /\ phase' = "fatal"
          /\ UNCHANGED <<iss_pc, record, cpu_diff, iss_retired>>
     ELSE LET pc == PcOf(iss_pc)
              insn == prog[iss_pc + 1]
              rec == IF insn[1] # 0 THEN insn ELSE <<>>
          IN /\ iss_pc' = iss_pc + 1
             /\ iss_retired' = iss_retired + 1
             /\ record' = rec
             /\ IF rec # <<>>
                THEN /\ cpu_diff' = DebugInfo(TRUE, pc, rec[1], rec[2])
                     /\ phase' = "dut"
                ELSE UNCHANGED <<cpu_diff, phase>>
  /\ UNCHANGED <<prog, dut_pc, dut_diff, last_diff, dut_cycles, compared>>
  /\ UNCHANGED <<hartVars, decVars, auxVars>>

\* One pass of the DUT loop (emulator.rs 314-356) in which debug_info.commit
\* is false.
StartDiffDutCycle ==
  /\ phase = "dut"
  /\ dut_cycles < MaxDutCycles
  /\ dut_cycles' = dut_cycles + 1
  /\ UNCHANGED <<phase, prog, iss_pc, dut_pc, record, cpu_diff, dut_diff, last_diff,
                 iss_retired, compared>>
  /\ UNCHANGED <<hartVars, decVars, auxVars>>

\* The pass of the DUT loop in which the DUT commits its next instruction.
StartDiffDutCommit ==
  /\ phase = "dut"
  /\ dut_pc < Len(prog)
  /\ LET insn == prog[dut_pc + 1]
     IN dut_diff' = DebugInfo(TRUE, PcOf(dut_pc), insn[1], insn[2])
  /\ dut_pc' = dut_pc + 1
  /\ phase' = "diff"
  /\ UNCHANGED <<prog, iss_pc, record, cpu_diff, last_diff, iss_retired, dut_cycles,
                 compared>>
  /\ UNCHANGED <<hartVars, decVars, auxVars>>

\* diff (emulator.rs 366-375) with `last_diff = cpu_diff` moved in front of the
\* comparison: the record reported as last good is then the diverging one.
StartDiffCompareOverwritesLast ==
  /\ phase = "diff"
  /\ compared' = Append(compared, <<cpu_diff, dut_diff>>)
  /\ last_diff' = cpu_diff
  /\ IF ~DebugInfoEq(cpu_diff, dut_diff)
     THEN /\ phase' = "failed"
          /\ UNCHANGED <<iss_retired, dut_cycles>>
     ELSE /\ phase' = "cpu"
          /\ iss_retired' = 0
          /\ dut_cycles' = 0
  /\ UNCHANGED <<prog, iss_pc, dut_pc, record, cpu_diff, dut_diff>>
  /\ UNCHANGED <<hartVars, decVars, auxVars>>

\* diff (emulator.rs 366-375).
StartDiffCompare ==
  /\ phase = "diff"
  /\ compared' = Append(compared, <<cpu_diff, dut_diff>>)
  /\ IF ~DebugInfoEq(cpu_diff, dut_diff)
     THEN /\ phase' = "failed"
          /\ UNCHANGED <<last_diff, iss_retired, dut_cycles>>
     ELSE /\ last_diff' = cpu_diff
          /\ phase' = "cpu"
          /\ iss_retired' = 0
          /\ dut_cycles' = 0
  /\ UNCHANGED <<prog, iss_pc, dut_pc, record, cpu_diff, dut_diff>>
  /\ UNCHANGED <<hartVars, decVars, auxVars>>

NextDiff ==
  \/ StartDiffCpu
  \/ StartDiffDutCycle
  \/ StartDiffDutCommit
  \/ StartDiffCompare

\* Emulator::new and the loaded program.
InitDiff == HartInit /\ DiffInit /\ DecodeOff /\ FnOff /\ GprOff /\ MmuOff /\ DutOff /\ IrqOff

SpecDiff == InitDiff /\ [][NextDiff]_vars

(***************************************************************************)
(* The hart: any instruction may be the next one.                           *)
(***************************************************************************)
Sizes == {WORD, DOUBLEWORD}
SatpSv39 == ToBits(8, 60, 4) \cup ToBits(RootPpn, 0, 44)

\* The CSR instructions drawn, <<funct3, csr address, operand>>: what it takes
\* to turn Sv39 on and to return to S-mode or U-mode.
CsrInputs == { <<1, SATP, SatpSv39>>, <<2, MSTATUS, {11}>> }

\* The atomics and the stores, on the data doubleword, its two Sv39 aliases
\* and a misaligned address.
AtomicAddrs == {VA_A, VA_B, VA_C, VA_MIS}

Next ==
  \/ \E a \in AtomicAddrs, v \in Values : Hart(ExecStore(a, v))
  \/ \E a \in AtomicAddrs, v \in Values : Hart(ExecAmoswap(a, v, DOUBLEWORD))
  \/ \E a \in AtomicAddrs, sz \in Sizes : Hart(ExecLr(a, sz))
  \/ \E a \in AtomicAddrs, v \in Values, sz \in Sizes : Hart(ExecSc(a, v, sz))
  \/ \E i \in CsrInputs : Hart(ExecCsr(i[1], i[2], i[3]))
  \/ Hart(ExecEcall)
  \/ Hart(ExecMret)
  \/ Hart(TakeTrap)

\* Cpu::new, and no co-simulation.
Init == HartInit /\ DiffOff /\ DecodeOff /\ FnOff /\ GprOff /\ MmuOff /\ DutOff /\ IrqOff

Spec == Init /\ [][Next]_vars

\* The privileged side: every CSR instruction form on the status, delegation,
\* translation and a read-only register, the returns, and loads and stores on
\* an address that page-faults under Sv39 and one that faults on the bus.
PrivCsrInputs ==
  { <<1, SATP, SatpSv39>>, <<2, MSTATUS, {11}>>, <<2, MSTATUS, {17}>>,
    <<3, MSTATUS, {17}>>, <<1, MHARTID, {0}>>, <<1, MEDELEG, {13, 15}>>,
    <<6, SSTATUS, {1}>>, <<2, SATP, {}>> }
PrivAddrs == {VA_A, VA_E}

NextPriv ==
  \/ \E a \in PrivAddrs : Hart(ExecLoad(a))
  \/ \E a \in PrivAddrs, v \in Values : Hart(ExecStore(a, v))
  \/ \E a \in PrivAddrs, v \in Values, sz \in Sizes : Hart(ExecAmoswap(a, v, sz))
  \/ \E i \in PrivCsrInputs : Hart(ExecCsr(i[1], i[2], i[3]))
  \/ Hart(ExecEcall)
  \/ Hart(ExecMret)
  \/ Hart(ExecSret)
  \/ Hart(TakeTrap)

SpecPriv == Init /\ [][NextPriv]_vars

\* The decoder alone: one fetched word, executed.
InitDecode ==
  /\ HartInit /\ DiffOff /\ FnOff /\ GprOff /\ MmuOff /\ DutOff /\ IrqOff
  /\ inst \in Halfwords \cup SystemWords \cup UnknownOpcodeWords
  /\ outcome = Fetched

NextDecode == CpuExecute

SpecDecode == InitDecode /\ [][NextDecode]_vars

(***************************************************************************)
(* impl PartialEq for DebugInfo (emulator.rs 36-40) on its own: the two     *)
(* records are drawn, `==` is applied to them.                              *)
(***************************************************************************)
EqRecords ==
  {DebugInfo(c, PcOf(p), w, d) : c \in BOOLEAN, p \in 0..1, w \in 0..1, d \in Values}

InitEq ==
  /\ HartInit /\ DiffOff /\ DecodeOff /\ GprOff /\ MmuOff /\ DutOff /\ IrqOff
  /\ fn_arg \in EqRecords \X EqRecords
  /\ fn_res = <<>>

\* cpu_diff != dut_diff (emulator.rs 367) evaluates DebugInfo::eq.
CallEq ==
  /\ fn_res = <<>>
  /\ fn_res' = <<DebugInfoEq(fn_arg[1], fn_arg[2])>>
  /\ UNCHANGED <<fn_arg, hartVars, diffVars, decVars, gpr, xlate, dutVars, irqVars>>

NextEq == CallEq

SpecEq == InitEq /\ [][NextEq]_vars

(***************************************************************************)
(* Dut (dut.rs).  A 64-bit word is the set of the indices of its set bits.  *)
(***************************************************************************)
\* extend_to_64 replicating 0x0f over half a byte per mask bit.
ExtendTo64Nibbles(n) ==
  UNION {{i * 4 + k : k \in {j \in 0..3 : Shr((Shr(n, i) % 2) * 15, j) % 2 = 1}} : i \in 0..7}

\* extend_to_64 (dut.rs 9-15): ans |= ((n >> i & 1) * 0xff) << (i * 8).
ExtendTo64(n) ==
  UNION {{i * 8 + k : k \in {j \in 0..7 : Shr((Shr(n, i) % 2) * 255, j) % 2 = 1}} : i \in 0..7}

\* u64::trailing_zeros and u8::trailing_zeros.
TrailingZeros64(w) == IF w = {} THEN 64 ELSE CHOOSE b \in w : \A c \in w : b <= c
TrailingZeros8(n) ==
  IF n % 256 = 0 THEN 8
  ELSE CHOOSE k \in 0..7 : Shr(n, k) % 2 = 1 /\ \A j \in 0..(k - 1) : Shr(n, j) % 2 = 0

\* Dut::get_data_sram_mask_and_align (dut.rs 62-66) for data_sram_wen = wen.
GetDataSramMaskAndAlign(wen) ==
  [mask |-> ExtendTo64(wen), align |-> TrailingZeros64(ExtendTo64(wen))]

\* Dut::get_data (dut.rs 68-71) for data_sram_wdata = wdata and a non-zero
\* wen: (wdata & mask) >> align, align < 64.
GetData(wdata, wen) ==
  LET ma == GetDataSramMaskAndAlign(wen)
  IN {b - ma.align : b \in {c \in wdata \cap ma.mask : c >= ma.align}}

\* get_size deciding on the number of mask bits set instead of the pattern.
GetSizeByPopcount(wen) ==
  LET n == Cardinality({i \in 0..7 : Shr(wen, i) % 2 = 1})
  IN CASE n = 1 -> BYTE
       [] n = 2 -> HALFWORD
       [] n = 4 -> WORD
       [] n = 8 -> DOUBLEWORD
       [] OTHER -> 0

\* Dut::get_size (dut.rs 73-82); 0 stands for the panic of the default arm.
GetSize(wen) ==
  LET n == Shr(wen, TrailingZeros8(wen))
  IN CASE n = 1 -> BYTE
       [] n = 3 -> HALFWORD
       [] n = 15 -> WORD
       [] n = 255 -> DOUBLEWORD
       [] OTHER -> 0

\* Dut::step (dut.rs 86-89): the reset input after `reset_toggle` at ticks t.
\* The same with the second toggle one step early.
ResetToggleOneStep(t, r) == IF t \in {0, 1} THEN ~r ELSE r

ResetToggle(t, r) == IF t \in {0, 2} THEN ~r ELSE r

\* self.ticks += 1 (dut.rs 105).  step looks at ticks only for = 0, = 2 and
\* >= 2, so beyond MaxTicks only the parity of ticks is kept.
NextTicks(t) == IF t < MaxTicks THEN t + 1 ELSE MaxTicks - 1

\* The write of data_sram (dut.rs 107-121): the shadow bus it leaves, ok =
\* FALSE for the panic of get_size or of unwrap.
DutMirror(bus, wen, addr, wdata) ==
  IF wen = 0 THEN [ok |-> TRUE, mem |-> bus]
  ELSE IF GetSize(wen) = 0 THEN [ok |-> FALSE, mem |-> bus]
  ELSE LET w == BusWrite(bus, addr, BitsValue(GetData(wdata, wen), 0, 31))
       IN [ok |-> w.ok, mem |-> w.mem]

(***************************************************************************)
(* The DUT loop of Emulator::start_diff (emulator.rs 314-356) around an      *)
(* arbitrary DUT: what the RTL model drives on its outputs in a step         *)
(* (data_sram_wen, data_sram_addr, data_sram_wdata, data_sram_en,            *)
(* debug_commit) is an input of the pass, all low while reset is high.  The  *)
(* instruction side (inst_sram, Dut.inst) is left out.  Stores are of whole  *)
(* doublewords.                                                              *)
(***************************************************************************)
DutAddrs == {VA_A, VA_E}
DutMasks == {0, 255}

InitDut ==
  /\ HartInit /\ DiffOff /\ DecodeOff /\ FnOff /\ GprOff /\ MmuOff /\ IrqOff
  /\ ticks = 0 /\ reset = FALSE /\ dut_bus = (VA_A :> 0) /\ dut_data = 0
  /\ d_phase = "cpu" /\ stepped = NotStepped

\* The data word for the DUT's next step (emulator.rs 317-332); p is the
\* translated address and r the result of the read.
DutDataRead(en, p, r) ==
  IF ~en THEN [ok |-> TRUE, data |-> dut_data]
  ELSE IF ~p.ok \/ ~r.ok THEN [ok |-> FALSE, data |-> dut_data]
  ELSE [ok |-> TRUE, data |-> r.val]

\* One pass of the loop: Dut::step, the data read, the commit test.
DutLoopPass(wen, addr, wdata, en, commit) ==
  /\ d_phase = "dut"
  /\ reset' = ResetToggle(ticks, reset)
  /\ reset' => (wen = 0 /\ ~en /\ ~commit)
  /\ ticks' = NextTicks(ticks)
  /\ stepped' = [tick |-> ticks, reset |-> reset', en |-> en, addr |-> addr]
  /\ LET m == DutMirror(dut_bus, wen, addr, ToBits(wdata, 0, 31))
         p == Translate(mode, dram, addr, "Instruction")
         d == DutDataRead(en, p, BusRead(dram, p.pa))
     IN /\ dut_bus' = m.mem
        /\ IF ~m.ok THEN d_phase' = "panic" /\ UNCHANGED dut_data
           ELSE /\ dut_data' = d.data
                /\ d_phase' = IF ~d.ok THEN "panic" ELSE IF commit THEN "diff" ELSE "dut"
  /\ UNCHANGED <<hartVars, diffVars, decVars, fnVars, gpr, xlate, irqVars>>

\* A pass of the cpu loop (emulator.rs 288-310) in which the ISS executes a
\* store, which records no register write.
DutCpuStore(addr, value) ==
  /\ d_phase = "cpu"
  /\ ExecStore(addr, value)
  /\ UNCHANGED <<diffVars, decVars, fnVars, gpr, xlate, dutVars, irqVars>>

\* The pass of the cpu loop in which the ISS records a register write and
\* leaves the loop.
DutCpuRecord ==
  /\ d_phase = "cpu"
  /\ d_phase' = "dut"
  /\ UNCHANGED <<ticks, reset, dut_bus, dut_data, stepped>>
  /\ UNCHANGED <<hartVars, diffVars, decVars, fnVars, gpr, xlate, irqVars>>

\* diff (emulator.rs 366-375); whether the records are equal is an input.
DutCompare(equal) ==
  /\ d_phase = "diff"
  /\ d_phase' = IF equal THEN "cpu" ELSE "failed"
  /\ UNCHANGED <<ticks, reset, dut_bus, dut_data, stepped>>
  /\ UNCHANGED <<hartVars, diffVars, decVars, fnVars, gpr, xlate, irqVars>>

NextDut ==
  \/ \E wen \in DutMasks, addr \in DutAddrs, wdata \in Values, en \in BOOLEAN,
        commit \in BOOLEAN : DutLoopPass(wen, addr, wdata, en, commit)
  \/ \E v \in Values : DutCpuStore(VA_A, v)
  \/ DutCpuRecord
  \/ \E equal \in BOOLEAN : DutCompare(equal)

\* The harness runs on as long as it has not returned or aborted.
SpecDut == InitDut /\ [][NextDut]_vars /\ WF_vars(NextDut)

(***************************************************************************)
(* extend_to_64 and Dut::get_data on their own: the write mask and the raw  *)
(* write data are drawn, the functions are applied as Dut::step applies     *)
(* them (get_data only for a non-zero mask, dut.rs 110-112).                *)
(***************************************************************************)
WriteMasks == 0..255
\* 0xffff_ffff_ffff_ffff, 0x0101_0101_0101_0101, 0x8040_2010_0804_0201.
WriteData == {0..63, {8 * i : i \in 0..7}, {9 * i : i \in 0..7}}

InitMask ==
  /\ HartInit /\ DiffOff /\ DecodeOff /\ GprOff /\ MmuOff /\ DutOff /\ IrqOff
  /\ fn_arg \in WriteMasks \X WriteData
  /\ fn_res = <<>>

CallGetData ==
  /\ fn_res = <<>>
  /\ fn_res' = <<[mask |-> ExtendTo64(fn_arg[1]),
                  data |-> IF fn_arg[1] # 0 THEN GetData(fn_arg[2], fn_arg[1]) ELSE {}]>>
  /\ UNCHANGED <<fn_arg, hartVars, diffVars, decVars, gpr, xlate, dutVars, irqVars>>

NextMask == CallGetData

SpecMask == InitMask /\ [][NextMask]_vars

(***************************************************************************)
(* The write of data_sram in Dut::step (dut.rs 107-121) on its own, for     *)
(* every write mask the DUT can drive; fn_arg is <<data_sram_wen,           *)
(* data_sram_wdata, data_sram_addr>> and the shadow bus starts as loaded.   *)
(***************************************************************************)
ShadowBus == (VA_A :> 0)
MirrorData == {{0}, {32}}
MirrorAddrs == {VA_A, VA_B}

InitMirror ==
  /\ HartInit /\ DiffOff /\ DecodeOff /\ GprOff /\ MmuOff /\ DutOff /\ IrqOff
  /\ fn_arg \in WriteMasks \X MirrorData \X MirrorAddrs
  /\ fn_res = <<>>

\* size is what get_size returned (0: it was not called, or panicked).
CallDutMirror ==
  /\ fn_res = <<>>
  /\ fn_res' = <<DutMirror(ShadowBus, fn_arg[1], fn_arg[3], fn_arg[2])
                  @@ [size |-> IF fn_arg[1] = 0 THEN 0 ELSE GetSize(fn_arg[1])]>>
  /\ UNCHANGED <<fn_arg, hartVars, diffVars, decVars, gpr, xlate, dutVars, irqVars>>

NextMirror == CallDutMirror

SpecMirror == InitMirror /\ [][NextMirror]_vars

(***************************************************************************)
(* Gpr (cpu/gpr.rs 13-44) and the register loop of Cpu::reset (cpu.rs       *)
(* 116-119), on the registers GprIndices of the 32.  fn_arg is the last     *)
(* write made, <<index, value>>, <<-1, 0>> for the reset.                   *)
(***************************************************************************)
GprIndices == {0, 1, 2, 10, 11}
GprValues == {0, 1, DRAM_BASE + DRAM_SIZE, POINTER_TO_DTB}

\* Gpr::new (gpr.rs 13-31).
GprNew ==
  [i \in GprIndices |-> CASE i = 2 -> DRAM_BASE + DRAM_SIZE
                          [] i = 11 -> POINTER_TO_DTB
                          [] OTHER -> 0]

\* Gpr::read (gpr.rs 34-36).
GprRead(g, index) == g[index]

\* Gpr::write without the test of the index.
GprWriteAny(g, index, value) == [g EXCEPT ![index] = value]

\* Gpr::write (gpr.rs 39-44).
GprWrite(g, index, value) == IF index # 0 THEN [g EXCEPT ![index] = value] ELSE g

InitGpr ==
  /\ HartInit /\ DiffOff /\ DecodeOff /\ MmuOff /\ DutOff /\ IrqOff
  /\ gpr = GprNew
  /\ fn_arg = <<>> /\ fn_res = <<>>

\* self.gpr.write(rd, value) of an instruction.
CallGprWrite(index, value) ==
  /\ gpr' = GprWrite(gpr, index, value)
  /\ fn_arg' = <<index, value>>
  /\ UNCHANGED <<fn_res, hartVars, diffVars, decVars, xlate, dutVars, irqVars>>

\* Cpu::reset: self.gpr.write(i, 0) for every i, index 0 included.
CallGprReset ==
  /\ gpr' = [i \in GprIndices |-> GprWrite(gpr, i, 0)[i]]
  /\ fn_arg' = <<-1, 0>>
  /\ UNCHANGED <<fn_res, hartVars, diffVars, decVars, xlate, dutVars, irqVars>>

NextGpr ==
  \/ \E index \in GprIndices, value \in GprValues : CallGprWrite(index, value)
  \/ CallGprReset

SpecGpr == InitGpr /\ [][NextGpr]_vars

(***************************************************************************)
(* div, divu, rem, remu (cpu.rs 1672-1784) on registers of DivBits bits: a  *)
(* register value is its bit pattern 0 .. 2^DivBits - 1.  fn_arg is         *)
(* <<signed, rs1 value, rs2 value>>; both the divide and the remainder      *)
(* instruction of the family are executed on it.                            *)
(***************************************************************************)
DivModulus == 2 ^ DivBits
\* u64::MAX, i64::MIN and -1 as bit patterns.
DivAllOnes == DivModulus - 1
DivIntMin == DivModulus \div 2

\* `as i64` and `as u64`.
AsSigned(x) == IF x >= DivIntMin THEN x - DivModulus ELSE x
AsUnsigned(n) == n % DivModulus

Magnitude(n) == IF n < 0 THEN 0 - n ELSE n
\* i64::wrapping_div and i64::wrapping_rem for a non-zero b: the quotient is
\* rounded towards zero, the remainder has the sign of the dividend.
WrappingDiv(a, b) ==
  LET q == Magnitude(a) \div Magnitude(b)
  IN IF (a < 0) # (b < 0) THEN 0 - q ELSE q
WrappingRem(a, b) ==
  LET r == Magnitude(a) % Magnitude(b)
  IN IF a < 0 THEN 0 - r ELSE r

\* div (cpu.rs 1672-1694).
ExecDiv(rs1, rs2) ==
  LET dividend == AsSigned(rs1)
      divisor == AsSigned(rs2)
  IN IF divisor = 0 THEN DivAllOnes
     ELSE IF dividend = AsSigned(DivIntMin) /\ divisor = -1 THEN AsUnsigned(dividend)
     ELSE AsUnsigned(WrappingDiv(dividend, divisor))

\* divu (cpu.rs 1706-1723).
ExecDivu(rs1, rs2) == IF rs2 = 0 THEN DivAllOnes ELSE rs1 \div rs2

\* rem with the result of the division by zero taken from rs2.
ExecRemOfDivisor(rs1, rs2) ==
  LET dividend == AsSigned(rs1)
      divisor == AsSigned(rs2)
  IN IF divisor = 0 THEN AsUnsigned(divisor)
     ELSE IF dividend = AsSigned(DivIntMin) /\ divisor = -1 THEN 0
     ELSE AsUnsigned(WrappingRem(dividend, divisor))

\* rem (cpu.rs 1741-1761).
ExecRem(rs1, rs2) ==
  LET dividend == AsSigned(rs1)
      divisor == AsSigned(rs2)
  IN IF divisor = 0 THEN AsUnsigned(dividend)
     ELSE IF dividend = AsSigned(DivIntMin) /\ divisor = -1 THEN 0
     ELSE AsUnsigned(WrappingRem(dividend, divisor))

\* remu (cpu.rs 1767-1781).
ExecRemu(rs1, rs2) == IF rs2 = 0 THEN rs1 ELSE rs1 % rs2

InitDiv ==
  /\ HartInit /\ DiffOff /\ DecodeOff /\ GprOff /\ MmuOff /\ DutOff /\ IrqOff
  /\ fn_arg \in BOOLEAN \X (0..DivAllOnes) \X (0..DivAllOnes)
  /\ fn_res = <<>>

CallDivRem ==
  /\ fn_res = <<>>
  /\ fn_res' = IF fn_arg[1]
               THEN <<[q |-> ExecDiv(fn_arg[2], fn_arg[3]), r |-> ExecRem(fn_arg[2], fn_arg[3])]>>
               ELSE <<[q |-> ExecDivu(fn_arg[2], fn_arg[3]), r |-> ExecRemu(fn_arg[2], fn_arg[3])]>>
  /\ UNCHANGED <<fn_arg, hartVars, diffVars, decVars, gpr, xlate, dutVars, irqVars>>

NextDiv == CallDivRem

SpecDiv == InitDiv /\ [][NextDiv]_vars

(***************************************************************************)
(* Cpu::translate on its own, under the paging state that CSR writes, MRET  *)
(* and Cpu::reset leave, over guest images with a leaf PTE at each level:   *)
(*   Image                4 KiB leaves (above)                              *)
(*   ImageGiga            root entry 0 is a leaf, ppn[2] = 1                *)
(*   ImageMega            level-1 entry 0 is a leaf, ppn[1] = 1             *)
(*   ImageMegaMisaligned  level-1 entry 0 is a leaf with ppn[0] = 1         *)
(*   ImageReadOnly        level-1 entry 0 is a leaf with V, R, U, A only    *)
(***************************************************************************)
ImageGiga == (PteAt(RootPpn, 0) :> PteLeaf(2 ^ 18)) @@ (VA_A :> 0)
ImageMega ==
  (PteAt(RootPpn, 0) :> PteNext(RootPpn + 1)) @@
  (PteAt(RootPpn + 1, 0) :> PteLeaf(2 ^ 9)) @@ (VA_A :> 0)
ImageMegaMisaligned ==
  (PteAt(RootPpn, 0) :> PteNext(RootPpn + 1)) @@
  (PteAt(RootPpn + 1, 0) :> PteLeaf(2 ^ 9 + 1)) @@ (VA_A :> 0)
ImageReadOnly ==
  (PteAt(RootPpn, 0) :> PteNext(RootPpn + 1)) @@
  (PteAt(RootPpn + 1, 0) :> (2 ^ 9) * 1024 + 83) @@ (VA_A :> 0)
MmuImages == {Image, ImageGiga, ImageMega, ImageMegaMisaligned, ImageReadOnly}

MmuAddrs == {VA_A, VA_MIS, VA_B + 4095, VA_E}
AccessTypes == {"Instruction", "Load", "Store"}
MmuCsrInputs ==
  { <<1, SATP, SatpSv39>>, <<1, SATP, {}>>, <<2, MSTATUS, {11}>> }

\* Cpu::reset (cpu.rs 112-120): pc, mode, the CSR file (cleared, specification
\* 3) and the registers; enable_paging, page_table and the reservation set
\* are not touched.
CpuReset ==
  /\ exc = None
  /\ mode' = Machine
  /\ csr' = [a \in CsrAddrs |-> {}]
  /\ rd' = NoWrite
  /\ last' = "reset"
  /\ trapPre' = <<>>
  /\ UNCHANGED <<enable_paging, page_table, reservation_set, dram, exc, lrFresh>>

\* self.translate(addr, access_type) as fetch, read and write call it; w is
\* the walk it makes when it does not return early.
MmuTranslated(addr, access_type, w) ==
  xlate' = [va |-> addr, access_type |-> access_type, mode |-> mode,
            satp_mode |-> CsrReadBits(csr, SATP, 60, 4),
            satp_ppn |-> CsrReadBits(csr, SATP, 0, 44),
            enable_paging |-> enable_paging, page_table |-> page_table,
            sum |-> CsrReadBits(csr, MSTATUS, 18, 1),
            mxr |-> CsrReadBits(csr, MSTATUS, 19, 1),
            pte |-> IF ~enable_paging \/ mode = Machine \/ ~w.ok THEN 0 ELSE w.pte,
            walked |-> ~(~enable_paging \/ mode = Machine),
            level |-> IF ~enable_paging \/ mode = Machine \/ ~w.ok THEN -1 ELSE w.i,
            r |-> Translate(mode, dram, addr, access_type)]

MmuTranslate(addr, access_type) ==
  /\ exc = None
  /\ MmuTranslated(addr, access_type, Walk(dram, page_table, 2, addr, access_type))
  /\ UNCHANGED <<hartVars, diffVars, decVars, fnVars, gpr, dutVars, irqVars>>

\* A hart step of SpecMmu.
MmuHart(A) == A /\ UNCHANGED <<diffVars, decVars, fnVars, gpr, xlate, dutVars, irqVars>>

InitMmu ==
  /\ mode = Machine
  /\ csr = [a \in CsrAddrs |-> {}]
  /\ enable_paging = FALSE
  /\ page_table = 0
  /\ reservation_set = {}
  /\ dram \in MmuImages
  /\ exc = None /\ rd = NoWrite /\ last = "new" /\ lrFresh = {} /\ trapPre = <<>>
  /\ DiffOff /\ DecodeOff /\ FnOff /\ GprOff /\ DutOff /\ IrqOff
  /\ xlate = NotTranslated

NextMmu ==
  \/ \E i \in MmuCsrInputs : MmuHart(ExecCsr(i[1], i[2], i[3]))
  \/ MmuHart(ExecMret)
  \/ MmuHart(CpuReset)
  \/ \E addr \in MmuAddrs, access_type \in AccessTypes : MmuTranslate(addr, access_type)

SpecMmu == InitMmu /\ [][NextMmu]_vars

(***************************************************************************)
(* The effective address of the loads and stores of execute_general         *)
(* (cpu.rs 1029-1033, 1082-1086, 1255-1259, 1286-1290), on registers of     *)
(* AddrBits bits.  inst is the set of the set bits of the instruction word; *)
(* fn_arg is <<inst, gpr.read(rs1)>>.                                       *)
(***************************************************************************)
AddrModulus == 2 ^ AddrBits

\* `as i32 as i64 >> 20` of a word whose bits 31..20 hold n: the arithmetic
\* shift brings the sign bit (bit 11 of n) down over the upper bits.
SignShifted(n) == IF n >= 2048 THEN AddrModulus - 4096 + n ELSE n

\* 0x03 and 0x07: offset = ((inst as i32 as i64) >> 20) as u64.
LoadOffset(w) == SignShifted(BitsValue(w, 20, 12))

\* 0x23: offset = (((inst & 0xfe000000) as i32 as i64 >> 20) as u64) | ((inst >> 7) & 0x1f).
StoreOffset(w) == SignShifted(BitsValue(w, 25, 7) * 32) + BitsValue(w, 7, 5)

\* 0x27: offset = ((((inst as i32 as i64) >> 20) as u64) & 0xfe0) | ((inst >> 7) & 0x1f).
FpStoreOffset(w) == ((SignShifted(BitsValue(w, 20, 12)) % 4096) \div 32) * 32 + BitsValue(w, 7, 5)

\* let addr = self.gpr.read(rs1).wrapping_add(offset), by opcode.
EffectiveAddress(w, rs1) ==
  LET opcode == BitsValue(w, 0, 7)
      offset == CASE opcode \in {3, 7} -> LoadOffset(w)
                  [] opcode = 35 -> StoreOffset(w)
                  [] OTHER -> FpStoreOffset(w)
  IN (rs1 + offset) % AddrModulus

\* The instruction words: ld, fld, sd, fsd (funct3 = 3) with every immediate
\* of AddrImms, in the I and S formats.
AddrImms == {0, 1, 8, 31, 32, 2047, 2048, 2056, 4064, 4095}
EncodeI(opcode, imm) == ToBits(opcode, 0, 7) \cup {12, 13} \cup ToBits(imm, 20, 12)
EncodeS(opcode, imm) ==
  ToBits(opcode, 0, 7) \cup {12, 13} \cup ToBits(imm % 32, 7, 5) \cup ToBits(imm \div 32, 25, 7)
AddrInsts ==
  {EncodeI(o, i) : o \in {3, 7}, i \in AddrImms} \cup {EncodeS(o, i) : o \in {35, 39}, i \in AddrImms}
AddrBases == {0, 16, 4096, AddrModulus - 1}

InitAddr ==
  /\ HartInit /\ DiffOff /\ DecodeOff /\ GprOff /\ MmuOff /\ DutOff /\ IrqOff
  /\ fn_arg \in AddrInsts \X AddrBases
  /\ fn_res = <<>>

CallEffectiveAddress ==
  /\ fn_res = <<>>
  /\ fn_res' = <<EffectiveAddress(fn_arg[1], fn_arg[2])>>
  /\ UNCHANGED <<fn_arg, hartVars, diffVars, decVars, gpr, xlate, dutVars, irqVars>>

NextAddr == CallEffectiveAddress

SpecAddr == InitAddr /\ [][NextAddr]_vars

(***************************************************************************)
(* c.jr, c.mv and c.jalr of execute_compressed (cpu.rs 906-943) next to     *)
(* jalr and add of execute_general (cpu.rs 2532-2543, 1593-1597), each      *)
(* followed by the pc increment of Cpu::execute (cpu.rs 464-477), on        *)
(* registers of AddrBits bits.  fn_arg is the compressed instruction and    *)
(* the hart state it runs on; fn_res holds the state the 16-bit handler     *)
(* leaves (c) and the state the 32-bit handler leaves for the expansion the *)
(* handler's comment names (x).                                             *)
(***************************************************************************)
WrapAdd(a, b) == (a + b) % AddrModulus
WrapSub(a, b) == (a + AddrModulus - b) % AddrModulus

\* c.jr (cpu.rs 908-916).
ExecCJr(g, pc, rs1) ==
  [pc |-> IF rs1 # 0 THEN WrapSub(GprRead(g, rs1), 2) ELSE pc, gpr |-> g]

\* c.mv (cpu.rs 917-926).
ExecCMv(g, pc, r, rs2) ==
  [pc |-> pc, gpr |-> IF rs2 # 0 THEN GprWrite(g, r, GprRead(g, rs2)) ELSE g]

\* c.jalr (cpu.rs 934-941).
ExecCJalr(g, pc, rs1) ==
  [pc |-> WrapSub(GprRead(g, rs1), 2), gpr |-> GprWrite(g, 1, WrapAdd(pc, 2))]

\* jalr (cpu.rs 2532-2543): target = (rs1 + offset) & !1.
ExecJalr(g, pc, r, rs1, offset) ==
  [pc |-> WrapSub((WrapAdd(GprRead(g, rs1), offset) \div 2) * 2, 4),
   gpr |-> GprWrite(g, r, WrapAdd(pc, 4))]

\* add (cpu.rs 1593-1597).
ExecAdd(g, pc, r, rs1, rs2) ==
  [pc |-> pc, gpr |-> GprWrite(g, r, WrapAdd(GprRead(g, rs1), GprRead(g, rs2)))]

\* Cpu::execute after the handler returned Ok: pc += 2 or pc += 4.
PcAdvanced(st, n) == [st EXCEPT !.pc = WrapAdd(@, n)]

CRegs == {0, 1, 5}
CRegValues == {8, 9, AddrModulus - 1}
CRegFiles == {f \in [CRegs -> CRegValues \cup {0}] : f[0] = 0 /\ f[1] # 0 /\ f[5] # 0}
CPcs == {0, 16, AddrModulus - 2}
\* <<mnemonic, rd or rs1, rs2>>; c.jr with rs1 = 0 is reserved and c.jalr
\* with rs1 = 0 is c.ebreak.
CInsts ==
  {<<"c.jr", a, 0>> : a \in {1, 5}} \cup {<<"c.jalr", a, 0>> : a \in {1, 5}}
    \cup {<<"c.mv", a, b>> : a \in CRegs, b \in {1, 5}}

InitCompressed ==
  /\ HartInit /\ DiffOff /\ DecodeOff /\ GprOff /\ MmuOff /\ DutOff /\ IrqOff
  /\ fn_arg \in CInsts \X CRegFiles \X CPcs
  /\ fn_res = <<>>

ExecutedCompressed(i, g, pc) ==
  PcAdvanced(CASE i[1] = "c.jr" -> ExecCJr(g, pc, i[2])
               [] i[1] = "c.jalr" -> ExecCJalr(g, pc, i[2])
               [] OTHER -> ExecCMv(g, pc, i[2], i[3]), 2)

ExecutedExpansion(i, g, pc) ==
  PcAdvanced(CASE i[1] = "c.jr" -> ExecJalr(g, pc, 0, i[2], 0)
               [] i[1] = "c.jalr" -> ExecJalr(g, pc, 1, i[2], 0)
               [] OTHER -> ExecAdd(g, pc, i[2], 0, i[3]), 4)

CallBothHandlers ==
  /\ fn_res = <<>>
  /\ fn_res' = <<[c |-> ExecutedCompressed(fn_arg[1], fn_arg[2], fn_arg[3]),
                  x |-> ExecutedExpansion(fn_arg[1], fn_arg[2], fn_arg[3])]>>
  /\ UNCHANGED <<fn_arg, hartVars, diffVars, decVars, gpr, xlate, dutVars, irqVars>>

NextCompressed == CallBothHandlers

SpecCompressed == InitCompressed /\ [][NextCompressed]_vars

(***************************************************************************)
(* Emulator::execute (emulator.rs 159-175), the driver cycle:               *)
(* devices_increment, check_pending_interrupt (cpu.rs 123-207),             *)
(* Interrupt::take_trap and Cpu::execute (cpu.rs 456-479).  The CLINT, the  *)
(* PLIC, the UART, the virtio disk and Interrupt::take_trap are from the    *)
(* specification (4.5, 4.6): a cycle's inputs are whether the CLINT raises  *)
(* MTIP, whether a device is interrupting and the instruction at pc, one of *)
(* CycleInsts.  take_trap's writes of xepc, xcause and xtval are read by    *)
(* nothing here and are left out; tvec is in direct mode.  mip, mie and     *)
(* mideleg are the sets of their set bits, the pc is PcBits wide.           *)
(***************************************************************************)
\* The interrupts in the order check_pending_interrupt tests them (cpu.rs
\* 180-203), and the mip/mie bit of each (MEIP_BIT .. STIP_BIT).
IrqOrder ==
  <<"MachineExternalInterrupt", "MachineSoftwareInterrupt", "MachineTimerInterrupt",
    "SupervisorExternalInterrupt", "SupervisorSoftwareInterrupt",
    "SupervisorTimerInterrupt">>
IrqBit ==
  [MachineExternalInterrupt |-> 11, MachineSoftwareInterrupt |-> 3,
   MachineTimerInterrupt |-> 7, SupervisorExternalInterrupt |-> 9,
   SupervisorSoftwareInterrupt |-> 1, SupervisorTimerInterrupt |-> 5]
IrqBits == {IrqBit[n] : n \in DOMAIN IrqBit}

\* devices_increment (cpu.rs 446-452): the CLINT raises MTIP or does not.
DevicesIncrement(mp, clint) == IF clint THEN mp \cup {IrqBit.MachineTimerInterrupt} ELSE mp

\* cpu.rs 132-146: the early `return None`.
GloballyDisabled(m, c) ==
  \/ m = Machine /\ ReadMstatus(c, MSTATUS_MIE) = 0
  \/ m = Supervisor /\ ReadSstatus(c, XSTATUS_SIE) = 0

\* cpu.rs 150-167: a device is interrupting, so SEIP is set.
PolledMip(mp, ext) == IF ext THEN mp \cup {IrqBit.SupervisorExternalInterrupt} ELSE mp

\* cpu.rs 178-205: the index in IrqOrder of the first interrupt whose bit is
\* in pending, 0 if there is none.
FirstPending(pending) ==
  IF \A k \in 1..6 : IrqBit[IrqOrder[k]] \notin pending THEN 0
  ELSE CHOOSE k \in 1..6 :
         /\ IrqBit[IrqOrder[k]] \in pending
         /\ \A j \in 1..(k - 1) : IrqBit[IrqOrder[j]] \notin pending

\* check_pending_interrupt testing the supervisor interrupts first.
CheckPendingInterruptSupervisorFirst(m, c, mp, en, ext) ==
  IF GloballyDisabled(m, c) THEN [irq |-> "None", mip |-> mp]
  ELSE LET pending == en \cap PolledMip(mp, ext)
           k == FirstPending(pending)
           s == FirstPending(pending \cap {1, 5, 9})
       IN IF k = 0 THEN [irq |-> "None", mip |-> PolledMip(mp, ext)]
          ELSE IF s # 0
          THEN [irq |-> IrqOrder[s], mip |-> PolledMip(mp, ext) \ {IrqBit[IrqOrder[s]]}]
          ELSE [irq |-> IrqOrder[k], mip |-> PolledMip(mp, ext) \ {IrqBit[IrqOrder[k]]}]

\* check_pending_interrupt (cpu.rs 123-207): the interrupt it returns and
\* the mip it leaves.
CheckPendingInterrupt(m, c, mp, en, ext) ==
  IF GloballyDisabled(m, c) THEN [irq |-> "None", mip |-> mp]
  ELSE LET pending == en \cap PolledMip(mp, ext)
           k == FirstPending(pending)
       IN IF k = 0 THEN [irq |-> "None", mip |-> PolledMip(mp, ext)]
          ELSE [irq |-> IrqOrder[k], mip |-> PolledMip(mp, ext) \ {IrqBit[IrqOrder[k]]}]

\* The handler address in xtvec, for a trap taken to mode m.
Tvec(m) == IF m = Machine THEN 8 ELSE 12

\* Interrupt::take_trap (specification 4.5): delegation by mideleg, the push
\* of the interrupt-enable stack, the mode and the pc; the hart leaves the
\* idle state.
InterruptDelegated(m, deleg, irq) == m <= Supervisor /\ IrqBit[irq] \in deleg

InterruptTrapCsr(m, c, delegated) ==
  IF delegated
  THEN LET c1 == WriteSstatus(c, XSTATUS_SPIE, ReadSstatus(c, XSTATUS_SIE))
           c2 == WriteSstatus(c1, XSTATUS_SIE, 0)
       IN WriteSstatus(c2, XSTATUS_SPP, m % 2)
  ELSE LET c1 == WriteMstatus(c, MSTATUS_MPIE, ReadMstatus(c, MSTATUS_MIE))
           c2 == WriteMstatus(c1, MSTATUS_MIE, 0)
       IN WriteMstatus(c2, MSTATUS_MPP, m % 4)

InterruptTakeTrap(irq) ==
  IF irq = "None" THEN [mode |-> mode, csr |-> csr, pc |-> cpu_pc, idle |-> idle]
  ELSE [mode |-> IF InterruptDelegated(mode, mideleg, irq) THEN Supervisor ELSE Machine,
        csr |-> InterruptTrapCsr(mode, csr, InterruptDelegated(mode, mideleg, irq)),
        pc |-> Tvec(IF InterruptDelegated(mode, mideleg, irq) THEN Supervisor ELSE Machine),
        idle |-> FALSE]

\* The instructions of a cycle: any that only advances the pc, wfi (cpu.rs
\* 2677-2682), csrrs mip with all six interrupt bits, csrrsi mstatus with
\* MIE and SIE.
CycleInsts == {"nop", "wfi", "csrs_mip", "csrs_mstatus"}

\* Cpu::execute advancing the pc in the idle state too.
ExecutePcAlwaysAdvances(t) == (t.pc + 4) % (2 ^ PcBits)

\* Cpu::execute (cpu.rs 456-479): the pc it leaves; Ok(0) without a fetch
\* when idle, pc + 4 after an instruction otherwise.
ExecutePc(t) == IF t.idle THEN t.pc ELSE (t.pc + 4) % (2 ^ PcBits)

\* self.cpu.execute() (cpu.rs 456-479) on the hart t that the check and the
\* trap left, and the value Emulator::execute returns (emulator.rs 170-174).
CycleExecute(mp0, chk, t, ext, instr) ==
  /\ mode' = t.mode
  /\ IF t.idle
     THEN /\ csr' = t.csr /\ mip' = chk.mip /\ idle' = TRUE
     ELSE /\ csr' = IF instr = "csrs_mstatus"
                    THEN [t.csr EXCEPT ![MSTATUS] = @ \cup {1, 3}] ELSE t.csr
          /\ mip' = IF instr = "csrs_mip" THEN chk.mip \cup IrqBits ELSE chk.mip
          /\ idle' = (instr = "wfi")
  /\ cpu_pc' = ExecutePc(t)
  /\ cyc' = [ran |-> TRUE, mode |-> mode, mstatus |-> CsrRead(csr, MSTATUS) \cap {1, 3},
             pc |-> cpu_pc, idle |-> idle, mip0 |-> mp0, mip1 |-> chk.mip, ext |-> ext,
             fired |-> chk.irq, fetched |-> ~t.idle, trap |-> "Requested"]
  /\ UNCHANGED <<mie, mideleg, enable_paging, page_table, reservation_set, dram, exc, rd,
                 last, lrFresh, trapPre, diffVars, decVars, fnVars, gpr, xlate, dutVars>>

\* Emulator::execute.
EmulatorExecute(clint, ext, instr) ==
  CycleExecute(DevicesIncrement(mip, clint),
               CheckPendingInterrupt(mode, csr, DevicesIncrement(mip, clint), mie, ext),
               InterruptTakeTrap(CheckPendingInterrupt(mode, csr, DevicesIncrement(mip, clint),
                                                       mie, ext).irq),
               ext, instr)

\* The hart after its set-up code: any mode, MIE and SIE either way, all
\* interrupts or the timer and the external one enabled, the supervisor
\* interrupts delegated or none.
InitIrq ==
  /\ mode \in {User, Supervisor, Machine}
  /\ csr \in {[a \in CsrAddrs |-> IF a = MSTATUS THEN b ELSE {}] : b \in SUBSET {1, 3}}
  /\ enable_paging = FALSE /\ page_table = 0 /\ reservation_set = {} /\ dram = Image
  /\ exc = None /\ rd = NoWrite /\ last = "new" /\ lrFresh = {} /\ trapPre = <<>>
  /\ DiffOff /\ DecodeOff /\ FnOff /\ GprOff /\ MmuOff /\ DutOff
  /\ cpu_pc = 0 /\ idle = FALSE /\ mip = {}
  /\ mie \in {IrqBits, {7, 9}}
  /\ mideleg \in {{}, {1, 5, 9}}
  /\ cyc = NoCycle

NextIrq == \E clint \in BOOLEAN, ext \in BOOLEAN, instr \in CycleInsts : EmulatorExecute(clint, ext, instr)

SpecIrq == InitIrq /\ [][NextIrq]_vars

(***************************************************************************)
(* LR/SC (checked under Spec).                                              *)
(***************************************************************************)
Aligned(a, size) == a % (size \div 8) = 0

\* The physical address a store to a goes to, if the translation succeeds.
StorePa(a) == Translate(MprvMode(csr, mode), dram, a, "Store")

\* C1: for a naturally aligned address a, an SC on a that follows an LR on a
\* with no store instruction on a in between sets rd = 0 and leaves its rs2
\* in memory at a (or its own store faults and memory is untouched); an SC on
\* a with a store instruction on a since the last LR on a (or with no LR on a
\* at all) sets rd = 1 and writes nothing.
ScOutcome(a, v, t) ==
  IF a \in lrFresh
  THEN \/ /\ exc' = None /\ rd' = Written(0)
          /\ t.ok /\ dram'[t.pa] = v
       \/ /\ exc' \in {"StoreAMOPageFault", "StoreAMOAccessFault"}
          /\ dram' = dram
  ELSE exc' = None /\ rd' = Written(1) /\ dram' = dram

C6_ScClearsEveryReservation ==
  (last = "sc" /\ exc = None) => reservation_set = {}

\* An SC has succeeded and a reservation on another address is still held.
C6_Witness ==
  /\ last = "sc" /\ exc = None /\ rd = Written(0)
  /\ reservation_set # {}

\* C7: a store that completes through the virtual address b removes the
\* reservation on every address a that names the same physical location.
SamePlace(ta, tb) == ta.ok /\ tb.ok /\ ta.pa = tb.pa

C7_StoreInvalidatesByPhysicalAddress ==
  [][last' = "store" =>
     \A a \in AtomicAddrs, b \in AtomicAddrs, v \in Values :
       (ExecStore(b, v) /\ exc' = None /\ SamePlace(StorePa(a), StorePa(b)))
       => a \notin reservation_set']_vars

\* A store through VA_C has completed and the reservation on VA_B, which names
\* the same physical doubleword, is still held.
C7_Witness ==
  /\ last = "store" /\ exc = None
  /\ enable_paging /\ mode = Supervisor
  /\ VA_B \in reservation_set

\* C8: when a trap has been taken the reservation set is empty.
C8_TrapClearsReservations ==
  last = "trap" => reservation_set = {}

\* A trap has just been taken with a reservation held.
C8_Witness ==
  last = "trap" /\ reservation_set # {}

(***************************************************************************)
(* Traps, returns and CSR access (checked under SpecPriv).                  *)
(***************************************************************************)
\* trapPre holds the triple of the innermost trap taken to M-mode while no
\* trap and no instruction writing mstatus has followed it.
TrapThenMret == last = "mret" /\ trapPre # <<>>

\* C4 (as the code has it): after a trap to M-mode and the MRET that returns
\* from it, with no trap and no write of mstatus in between, MIE is the MIE of
\* before the trap, MPIE is 1 and MPP is U.
C4_MretPopsTheStack ==
  TrapThenMret =>
    /\ ReadMstatus(csr, MSTATUS_MIE) = trapPre[1]
    /\ ReadMstatus(csr, MSTATUS_MPIE) = 1
    /\ ReadMstatus(csr, MSTATUS_MPP) = User

\* A trap taken from S-mode with MIE = 1 has been returned from.
C4_Witness ==
  /\ TrapThenMret
  /\ trapPre[1] = 1 /\ trapPre[3] = Supervisor

\* C4 as stated: after the trap and its MRET, MIE, MPIE and MPP all have the
\* values of before the trap.
C4_MretRestoresTheTriple ==
  TrapThenMret => MTriple(csr) = trapPre

\* C5: a step that is neither a trap entry nor an MRET or SRET leaves the
\* privilege mode as it was, whether the instruction completes or returns an
\* exception.
C5_ModeChangesOnlyByTrapOrReturn ==
  [][last' \notin {"trap", "mret", "sret"} => mode' = mode]_vars

\* A load, store or AMO translated as S-mode under MPRV = 1 has returned a page
\* fault, and the hart is in S-mode.
C5_Witness ==
  /\ last \in {"load", "store", "amo"}
  /\ exc \in {"LoadPageFault", "StoreAMOPageFault"}
  /\ ReadMstatus(csr, MSTATUS_MPRV) = 1
  /\ ReadMstatus(csr, MSTATUS_MPP) = Supervisor
  /\ mode = Supervisor

\* Bits 11:10 of a CSR address: 0b11 marks the register read-only.
ReadOnlyCsr(csr_addr) == Shr(csr_addr, 10) % 4 = 3
\* Bits 9:8 of a CSR address: the lowest privilege that may access it.
MinPrivilege(csr_addr) == Shr(csr_addr, 8) % 4

\* C10: a CSR instruction that writes a read-only CSR, or that writes a CSR
\* from a mode below the CSR's minimum privilege, raises IllegalInstruction and
\* leaves the CSR file as it was.
C10_IllegalCsrWriteRaises ==
  [][last' = "csr" =>
     \A i \in PrivCsrInputs :
       (/\ ExecCsr(i[1], i[2], i[3])
        /\ CsrWrites(i[1], i[3])
        /\ ReadOnlyCsr(i[2]) \/ mode < MinPrivilege(i[2]))
       => (exc' = "IllegalInstruction" /\ csr' = csr)]_vars

\* A CSR instruction has completed in U-mode with the M-mode register medeleg
\* holding what it wrote.
C10_Witness ==
  /\ last = "csr" /\ exc = None
  /\ mode = User
  /\ rd = <<{}>>
  /\ csr[MEDELEG] = {13, 15}

(***************************************************************************)
(* The co-simulation loop (checked under SpecDiff).                         *)
(***************************************************************************)
\* C2: with a DUT that runs the same program and commits every instruction it
\* retires, the loop never reports a divergence, and the record the ISS hands
\* to the comparison carries the pc of the DUT's commit.
C2_IdenticalDutNeverDiverges ==
  /\ phase # "failed"
  /\ phase = "diff" => cpu_diff.pc = dut_diff.pc

\* The loop has stopped on a divergence: the DUT committed an instruction that
\* writes no register, the ISS record is of a later instruction.
C2_Witness ==
  /\ phase = "failed"
  /\ dut_diff.wnum = 0
  /\ cpu_diff.pc > dut_diff.pc

\* C3: in every outer step the ISS executes one instruction, never two or
\* more, before the DUT is advanced.
C3_OneInstructionPerOuterStep ==
  /\ iss_retired <= 1
  /\ phase = "dut" => iss_retired = 1

\* The DUT is about to be advanced after the ISS has executed two instructions
\* in this outer step.
C3_Witness ==
  phase = "dut" /\ iss_retired = 2

(***************************************************************************)
(* The decoder (checked under SpecDecode).                                  *)
(***************************************************************************)
\* Encodings this interpreter does not implement: the reserved funct3 = 0b100
\* of compressed quadrant 0, and uret.
ReservedEncoding(w) ==
  \/ Bits(w, 0, 2) = 0 /\ Bits(w, 13, 3) = 4
  \/ w = 2 * (2 ^ 20) + 115

\* C9: no fetched word aborts the host, and executing a reserved or
\* unsupported word returns IllegalInstruction carrying the word.
C9_UnknownWordsAreIllegal ==
  /\ outcome.kind # "panic"
  /\ (outcome # Fetched /\ ReservedEncoding(inst)) => outcome = IllegalInstruction(inst)

\* A word has been executed and the host process has aborted.
C9_Witness ==
  outcome.kind = "panic" /\ ReservedEncoding(inst)

(***************************************************************************)
(* Retirement-record equality (checked under SpecEq).                       *)
(***************************************************************************)
\* C13: records with equal commit and pc and rd index 0 are equal whatever
\* their rd values; records with a non-zero rd index are equal iff all four
\* fields are.
C13_EqIgnoresRdOfX0 ==
  fn_res # <<>> =>
    LET x == fn_arg[1]
        y == fn_arg[2]
    IN /\ (x.wnum = 0 /\ y.wnum = 0) => (fn_res[1] <=> (x.commit = y.commit /\ x.pc = y.pc))
       /\ (x.wnum # 0 /\ y.wnum # 0) => (fn_res[1] <=> x = y)

\* Two records of x0 that differ in the rd value only have been compared and
\* found different.
C13_Witness ==
  /\ fn_res = <<FALSE>>
  /\ fn_arg[1].wnum = 0 /\ fn_arg[2].wnum = 0
  /\ fn_arg[1].commit = fn_arg[2].commit /\ fn_arg[1].pc = fn_arg[2].pc
  /\ fn_arg[1].wdata # fn_arg[2].wdata

(***************************************************************************)
(* The comparison of the co-simulation loop (checked under SpecDiff).       *)
(***************************************************************************)
\* The record of the outer step before the last comparison, the default
\* record if there is none.
PrecedingRecord ==
  IF Len(compared) < 2 THEN DebugInfoDefault ELSE compared[Len(compared) - 1][1]

\* C14: the loop stops at the first outer step whose two records differ:
\* every comparison before the last one was of equal records, once stopped
\* no ISS or DUT step can run, and last_diff is then the record of the
\* preceding outer step (the default record if the first step diverged).
C14_StopsAtFirstMismatch ==
  /\ \A i \in 1..(Len(compared) - 1) : compared[i][1] = compared[i][2]
  /\ (compared # <<>> /\ compared[Len(compared)][1] # compared[Len(compared)][2])
       => phase = "failed"
  /\ phase = "failed" =>
       /\ compared # <<>>
       /\ compared[Len(compared)][1] # compared[Len(compared)][2]
       /\ last_diff = PrecedingRecord
       /\ ~ENABLED NextDiff

\* The loop has stopped at a mismatch that followed a matching outer step.
C14_Witness ==
  phase = "failed" /\ Len(compared) >= 2 /\ last_diff # DebugInfoDefault

(***************************************************************************)
(* The DUT adapter and the DUT loop (checked under SpecDut).                *)
(***************************************************************************)
\* C11: when the last DUT step asserted data_sram.en, the data word held for
\* the DUT's next step is the content of the DUT's own shadow bus at the
\* requested address, which includes every store the DUT has issued.
C11_DataReadFromShadowBus ==
  (stepped.en /\ d_phase \in {"dut", "diff"}) =>
    dut_data = BusRead(dut_bus, stepped.addr).val

\* The DUT has read a cell that its shadow bus and the ISS bus hold
\* different values of.
C11_Witness ==
  /\ stepped.en /\ d_phase \in {"dut", "diff"}
  /\ BusRead(dut_bus, stepped.addr).val # BusRead(dram, stepped.addr).val

\* C12: the DUT loop always ends: once entered, it is left, by a commit or
\* by the harness stopping with an error.
C12_DutLoopTerminates == (d_phase = "dut") ~> (d_phase # "dut")

\* The DUT loop is running and the DUT is out of reset.
C12_Witness == d_phase = "dut" /\ stepped.tick >= 2

\* C19: reset is high throughout the steps run at ticks 0 and 1, low
\* throughout every later step, and does not change between steps.
C19_ResetProtocol ==
  /\ stepped.tick # -1 => (stepped.reset <=> stepped.tick \in {0, 1})
  /\ stepped.tick # -1 => reset = stepped.reset
  /\ stepped.tick = -1 => ~reset

\* A step well after the release of reset has run.
C19_Witness == stepped.tick >= 3 /\ ~reset

(***************************************************************************)
(* The write mask (checked under SpecMask).                                 *)
(***************************************************************************)
\* Bit i of the 8-bit mask m.
MaskBit(m, i) == Shr(m, i) % 2 = 1

\* C20: byte i of the expanded mask is 0xFF when bit i of the write mask is
\* set and 0x00 otherwise, and for a non-zero mask the store data is the raw
\* write data ANDed with the expanded mask, shifted right by 8 times the
\* index of the lowest set bit of the mask.
C20_MaskExpansionAndStoreData ==
  fn_res # <<>> =>
    LET m == fn_arg[1]
        raw == fn_arg[2]
        low == CHOOSE i \in 0..7 : MaskBit(m, i) /\ \A j \in 0..(i - 1) : ~MaskBit(m, j)
    IN /\ \A i \in 0..7, k \in 0..7 : (i * 8 + k \in fn_res[1].mask) <=> MaskBit(m, i)
       /\ m # 0 =>
            fn_res[1].data = {b - 8 * low : b \in {c \in raw : MaskBit(m, c \div 8)}}

\* A store through the upper half of the data bus has had its data shifted
\* down.
C20_Witness ==
  fn_res # <<>> /\ fn_arg[1] = 240 /\ fn_arg[2] = 0..63 /\ fn_res[1].data = 0..31

(***************************************************************************)
(* The register file (checked under SpecGpr).                               *)
(***************************************************************************)
\* C17: x0 reads zero in every reachable state: after construction, after
\* reset and after any writes, those to index 0 included.
C17_X0ReadsZero == GprRead(gpr, 0) = 0

\* A non-zero value has just been written to index 0, other registers hold
\* non-zero values.
C17_Witness ==
  fn_arg = <<0, 1>> /\ GprRead(gpr, 1) # 0 /\ GprRead(gpr, 0) = 0

(***************************************************************************)
(* Division (checked under SpecDiv).                                        *)
(***************************************************************************)
\* C18: with divisor 0 the quotient is all ones and the remainder the
\* dividend; for signed INT_MIN / -1 the quotient is the dividend and the
\* remainder 0; otherwise dividend = quotient * divisor + remainder in
\* wrapping arithmetic.
C18_DivRemIdentity ==
  fn_res # <<>> =>
    LET dividend == fn_arg[2]
        divisor == fn_arg[3]
        q == fn_res[1].q
        r == fn_res[1].r
    IN IF divisor = 0 THEN q = DivAllOnes /\ r = dividend
       ELSE IF fn_arg[1] /\ dividend = DivIntMin /\ divisor = DivAllOnes
       THEN q = dividend /\ r = 0
       ELSE (q * divisor + r) % DivModulus = dividend

\* A negative dividend has been divided by a positive divisor with a
\* non-zero remainder.
C18_Witness ==
  /\ fn_res # <<>> /\ fn_arg[1]
  /\ fn_arg[2] > DivIntMin /\ fn_arg[3] \in 2..(DivIntMin - 1)
  /\ fn_res[1].r # 0

(***************************************************************************)
(* Address translation (checked under SpecMmu).                             *)
(***************************************************************************)
\* C15: a call of translate made with satp.MODE # 8 or in M-mode returns the
\* address unchanged, without entering the page walk and without exception.
C15_TranslateIdentity ==
  (xlate.va # -1 /\ (xlate.satp_mode # 8 \/ xlate.mode = Machine)) =>
    /\ xlate.r = [ok |-> TRUE, pa |-> xlate.va, exc |-> None]
    /\ ~xlate.walked

\* translate has been called outside M-mode with satp.MODE = 0.
C15_Witness ==
  xlate.va # -1 /\ xlate.satp_mode = 0 /\ xlate.mode # Machine

\* C16: whenever translate succeeds, at a leaf of any level, the low 12 bits
\* of the physical address are the low 12 bits of the virtual address.
C16_OffsetPreserved ==
  (xlate.va # -1 /\ xlate.r.ok) => Low(xlate.r.pa, 12) = Low(xlate.va, 12)

\* A translation through a 2 MiB superpage of an address with a non-zero
\* page offset has succeeded.
C16_Witness ==
  /\ xlate.va # -1 /\ xlate.r.ok /\ xlate.level = 1
  /\ Low(xlate.va, 12) # 0 /\ xlate.r.pa # xlate.va

(***************************************************************************)
(* The returns and MPRV (checked under SpecPriv).                           *)
(***************************************************************************)
\* C24: after an MRET or an SRET that restores a mode other than M,
\* mstatus.MPRV is 0.
C24_ReturnClearsMprv ==
  (last \in {"mret", "sret"} /\ mode # Machine) => ReadMstatus(csr, MSTATUS_MPRV) = 0

\* An SRET has returned to U-mode.
C24_Witness == last = "sret" /\ mode = User

(***************************************************************************)
(* The paging cache (checked under SpecMmu).                                *)
(***************************************************************************)
\* C28: at every call of translate (every fetch and data access) the cached
\* enable_paging is true iff satp.MODE = 8 and the cached page_table is
\* satp.PPN * 4096, after any sequence of CSR instructions and resets.
C28_PagingCacheAgreesWithSatp ==
  xlate.va # -1 =>
    /\ xlate.enable_paging <=> (xlate.satp_mode = 8)
    /\ xlate.page_table = xlate.satp_ppn * PAGE_SIZE

\* A translation has been made after a reset that followed a write of satp.
C28_Witness ==
  xlate.va # -1 /\ last = "reset" /\ xlate.enable_paging /\ xlate.mode = Machine

(***************************************************************************)
(* Leaf PTE permissions (checked under SpecMmu).                            *)
(***************************************************************************)
PteBit(pte, n) == Shr(pte, n) % 2 = 1

\* Whether a leaf PTE's R (bit 1), W (2), X (3) and U (4) bits permit an
\* access of the kind in mode m, under mstatus.SUM and mstatus.MXR.
Permitted(pte, m, access_type, sum, mxr) ==
  /\ CASE access_type = "Instruction" -> PteBit(pte, 3)
        [] access_type = "Load" -> PteBit(pte, 1) \/ (mxr = 1 /\ PteBit(pte, 3))
        [] OTHER -> PteBit(pte, 2)
  /\ m = User => PteBit(pte, 4)
  /\ (m = Supervisor /\ PteBit(pte, 4)) => (access_type # "Instruction" /\ sum = 1)

\* C21: when the walk of a call of translate reaches a leaf PTE whose bits do
\* not permit the access, the call fails with the page fault of the access
\* kind and returns no physical address.
C21_LeafPermissionsChecked ==
  (xlate.va # -1 /\ xlate.level >= 0
     /\ ~Permitted(xlate.pte, xlate.mode, xlate.access_type, xlate.sum, xlate.mxr)) =>
    /\ ~xlate.r.ok
    /\ xlate.r.exc = PageFault(xlate.access_type).exc

\* A store has been translated through a leaf PTE with W = 0.
C21_Witness ==
  /\ xlate.va # -1 /\ xlate.level >= 0
  /\ xlate.access_type = "Store" /\ ~PteBit(xlate.pte, 2)

(***************************************************************************)
(* The size of a DUT store (checked under SpecMirror).                      *)
(***************************************************************************)
RECURSIVE DropTrailingZeros(_)
DropTrailingZeros(n) == IF n = 0 \/ n % 2 = 1 THEN n ELSE DropTrailingZeros(n \div 2)

\* C30: a DUT store is written to the shadow bus only when its write mask
\* without its trailing zero bits is 0b1, 0b11, 0b1111 or 0b1111_1111, with a
\* size of 1, 2, 4 or 8 bytes; every other non-zero mask is rejected and the
\* shadow bus stays as it was.
C30_MirrorOnlyValidMasks ==
  (fn_res # <<>> /\ fn_arg[1] # 0) =>
    LET n == DropTrailingZeros(fn_arg[1])
    IN IF n \in {1, 3, 15, 255}
       THEN fn_res[1].size = 8 * Cardinality({i \in 0..7 : Shr(n, i) % 2 = 1})
       ELSE ~fn_res[1].ok /\ fn_res[1].mem = ShadowBus

\* The mask 0b0000_0101 has been driven with an address in DRAM and rejected.
C30_Witness ==
  /\ fn_res # <<>> /\ fn_arg[1] = 5 /\ fn_arg[3] = VA_A
  /\ ~fn_res[1].ok /\ fn_res[1].mem = ShadowBus

(***************************************************************************)
(* Load and store addresses (checked under SpecAddr).                       *)
(***************************************************************************)
\* The 12-bit immediate of a load (I format) or a store (S format).
Imm12(w) ==
  IF BitsValue(w, 0, 7) \in {3, 7} THEN BitsValue(w, 20, 12)
  ELSE BitsValue(w, 25, 7) * 32 + BitsValue(w, 7, 5)

\* C27: for every load and store, FSW and FSD included, the effective
\* address is rs1 plus the sign-extended 12-bit immediate, wrapping; an
\* immediate with bit 11 set addresses below rs1.
C27_AddressIsRs1PlusSignExtendedImm ==
  fn_res # <<>> =>
    LET imm == Imm12(fn_arg[1])
        signed == IF imm >= 2048 THEN imm - 4096 ELSE imm
    IN fn_res[1] = (fn_arg[2] + signed + AddrModulus) % AddrModulus

\* The address of a floating-point store with a negative immediate has been
\* computed.
C27_Witness ==
  /\ fn_res # <<>> /\ BitsValue(fn_arg[1], 0, 7) = 39
  /\ Imm12(fn_arg[1]) = 4095 /\ fn_arg[2] = 4096

(***************************************************************************)
(* Compressed instructions and their expansions (checked under              *)
(* SpecCompressed).                                                         *)
(***************************************************************************)
\* What the expansion's result becomes with PC+2 in place of PC+4: the link
\* value of a jump and the fall-through pc are 2 less.
WithPcPlus2(i, x) ==
  CASE i[1] = "c.jr" -> x
    [] i[1] = "c.jalr" -> [x EXCEPT !.gpr = GprWrite(@, 1, WrapSub(@[1], 2))]
    [] OTHER -> [x EXCEPT !.pc = WrapSub(@, 2)]

\* C26: the 16-bit handler leaves the registers and the next pc that the
\* 32-bit handler leaves for the canonical expansion, with PC+2 in place of
\* PC+4; c.jr and c.jalr jump to the rs1 value with bit 0 cleared.
C26_CompressedMatchesExpansion ==
  fn_res # <<>> => fn_res[1].c = WithPcPlus2(fn_arg[1], fn_res[1].x)

\* c.jalr has been executed on a register holding an odd address.
C26_Witness ==
  /\ fn_res # <<>> /\ fn_arg[1][1] = "c.jalr"
  /\ GprRead(fn_arg[2], fn_arg[1][2]) % 2 = 1

(***************************************************************************)
(* Interrupts and the driver cycle (checked under SpecIrq).                 *)
(***************************************************************************)
\* The mode an interrupt is directed at, and whether it was pending and
\* enabled when the last cycle's check began.
DirectedAt(n) == IF IrqBit[n] \in mideleg THEN Supervisor ELSE Machine
PendingEnabled(n) == IrqBit[n] \in (mie \cap cyc.mip0)

\* C22: an interrupt directed at a mode strictly higher than the current
\* one, with its bit set in mie and mip, makes the cycle's check fire,
\* whatever the current mode's own interrupt-enable bit is.
C22_HigherModeInterruptsFire ==
  cyc.ran =>
    \A n \in DOMAIN IrqBit :
      (PendingEnabled(n) /\ DirectedAt(n) > cyc.mode) => cyc.fired # "None"

\* A cycle began in S-mode with sstatus.SIE = 0 and the machine timer
\* interrupt pending and enabled.
C22_Witness ==
  /\ cyc.ran /\ cyc.mode = Supervisor /\ 1 \notin cyc.mstatus
  /\ PendingEnabled("MachineTimerInterrupt")

\* C23: a cycle in which an interrupt fires takes the trap and ends: it
\* fetches nothing, leaves the pc at the handler, and returns the
\* interrupt's trap kind.
C23_InterruptCycleEndsAtTrap ==
  (cyc.ran /\ cyc.fired # "None") =>
    /\ ~cyc.fetched
    /\ cpu_pc = Tvec(IF InterruptDelegated(cyc.mode, mideleg, cyc.fired)
                     THEN Supervisor ELSE Machine)
    /\ cyc.trap = cyc.fired

\* An interrupt has fired in the last cycle.
C23_Witness == cyc.ran /\ cyc.fired # "None" /\ ~cyc.idle

Priority == <<11, 3, 7, 9, 1, 5>>
\* What was pending and enabled in the last cycle's check, the polled
\* external interrupt included.
CyclePending ==
  mie \cap (cyc.mip0 \cup (IF cyc.ext THEN {9} ELSE {}))
CycleEnabled ==
  /\ ~(cyc.mode = Machine /\ 3 \notin cyc.mstatus)
  /\ ~(cyc.mode = Supervisor /\ 1 \notin cyc.mstatus)

\* C29: with interrupts globally enabled and some pending and enabled,
\* exactly the first of them in priority order is taken and only its mip
\* bit is cleared.
C29_OneInterruptInPriorityOrder ==
  (cyc.ran /\ CycleEnabled /\ CyclePending # {}) =>
    \E k \in 1..6 :
      /\ Priority[k] \in CyclePending
      /\ \A j \in 1..(k - 1) : Priority[j] \notin CyclePending
      /\ cyc.fired # "None" /\ IrqBit[cyc.fired] = Priority[k]
      /\ cyc.mip1 = (cyc.mip0 \cup (IF cyc.ext THEN {9} ELSE {})) \ {Priority[k]}

\* MSI has been taken in a cycle after the one that took MEI, with the
\* four interrupts after it still pending.
C29_Witness ==
  /\ cyc.ran /\ cyc.fired = "MachineSoftwareInterrupt"
  /\ 11 \notin cyc.mip0 /\ {7, 9, 1, 5} \subseteq cyc.mip1

====
